---- MODULE Spec2Model ----
(***************************************************************************)
(* PixelZip: the batch pipeline of src/hooks/useImageConverter.ts          *)
(* (useImageConverter and useBatchZipper) as driven by the controls of     *)
(* ImageConverterView and BatchZipperView.                                  *)
(*                                                                         *)
(* The two hooks own disjoint React state cells and never call each other, *)
(* so a behaviour of the model follows one of them: `hook` names it.       *)
(* A React state update made with an updater function is applied to the    *)
(* latest state; the code between two awaits runs without interleaving, so *)
(* each action below is the code from one suspension point to the next.    *)
(***************************************************************************)
EXTENDS Integers, Sequences, FiniteSets, TLC

\* ---------------------------------------------------------------- bounds
MaxIds == 2          \* ids generateId() hands out in one behaviour
MaxRuns == 2         \* batch runs started in one behaviour
MaxPending == 1      \* handleFilesAdded calls awaiting their dimensions
MaxDrop == 3         \* files one handleFoldersAdded call is given

\* ------------------------------------------------------------- constants
\* types.ts ConversionStatus, as used by the hooks
IDLE == "IDLE"
PROCESSING == "PROCESSING"
COMPLETED == "COMPLETED"
ERROR == "ERROR"

\* a field that was never assigned
NoBlob == [gen |-> 0, size |-> 0]
NoSize == -1
NoMessage == "undefined"

ImageHook == "useImageConverter"
ZipHook == "useBatchZipper"
GroupingUnit == "handleFoldersAdded"

VARIABLES
    hook,            \* which hook instance the behaviour follows
    files,           \* useImageConverter: files
    isProcessing,    \* useImageConverter: isProcessing
    processedCount,  \* useImageConverter: processedCount
    pendingAdds,     \* handleFilesAdded calls suspended at Promise.all
    conv,            \* startConversion's frame: filesToProcess, i, outcomes
    config,          \* useImageConverter: config
    zipTasks,        \* useBatchZipper: zipTasks
    isZipping,       \* useBatchZipper: isZipping
    scan,            \* the files of a drop whose hand-off to handleFoldersAdded is due
    zip,             \* startBatchZipping's frame: tasksToProcess, position, outcomes
    grouping,        \* one handleFoldersAdded call, statement by statement
    traversal,       \* one folder drop of the Dropzone: the traverseFileTree calls
    canvas,          \* one convertImageToJpg call, statement by statement
    exported,        \* what the last download handler handed to the browser
    ingest,          \* handleFilesAdded calls, lookup by lookup, and the object URLs
    nextId,          \* ids handed out so far + 1
    runs             \* runs started so far

imageVars == <<files, isProcessing, processedCount, pendingAdds, conv, config>>
zipVars == <<zipTasks, isZipping, scan, zip>>
unitVars == <<grouping, traversal, canvas, exported, ingest>>
vars == <<hook, imageVars, zipVars, unitVars, nextId, runs>>

\* ------------------------------------------------------------- inputs
\* file names as lists of '.'-separated parts: a.png and a.jpg
SourceFiles == {<<"a", "png">>, <<"a", "jpg">>}

\* the file lists one handleFilesAdded call can be given
Batches == UNION {[1..n -> SourceFiles] : n \in 1..MaxIds}

\* byte sizes of an encoded payload
BlobSizes == {1, 2}

\* the frame of a startConversion call: pc is where the async function stands
\* the initial config; quality and scale are held in percent (the code stores
\* the slider value divided by 100)
DefaultConfig == [quality |-> 90, fillColor |-> "#FFFFFF", scale |-> 100, trimRight |-> 0]

\* config is the value the closure of the call captured, used the config each
\* convertImageToJpg call of the run was given
NoFrame ==
    [pc |-> "none", queue |-> <<>>, i |-> 0, outcomes |-> <<>>,
     config |-> DefaultConfig, used |-> <<>>]

NoZipFrame ==
    [pc |-> "none", queue |-> <<>>, i |-> 0, outcomes |-> <<>>, percent |-> 0, entries |-> <<>>]

\* a blob the encoder or the archiver can return in run r
BlobsOf(r) == {[gen |-> r, size |-> s] : s \in BlobSizes}


\* ------------------------------------------------- useImageConverter
\* URL.createObjectURL returns a URL no earlier call returned
ObjectUrl(n) == <<"blob", n>>

\* the ImageFile built for one file of a handleFilesAdded call; the dimensions
\* are what getImageDimensions resolved with
NewImageFile(id, file) ==
    [id |-> id, file |-> file, previewUrl |-> ObjectUrl(id), width |-> 1, height |-> 1,
     status |-> IDLE,
     convertedBlob |-> NoBlob, convertedSize |-> NoSize, errorMessage |-> NoMessage]

\* setFiles(prev => [...prev, ...newImageFiles]); ids are fresh
AppendImageFiles(fs, batch, firstId) ==
    fs \o [k \in 1..Len(batch) |-> NewImageFile(firstId + k - 1, batch[k])]

\* prev.filter(f => f.id !== id)
RemoveById(fs, id) == SelectSeq(fs, LAMBDA f : f.id # id)

\* bug: the snapshot is not filtered
FilesToProcess_All(fs) == fs

\* files.filter(f => f.status !== ConversionStatus.COMPLETED)
FilesToProcess(fs) == SelectSeq(fs, LAMBDA f : f.status # COMPLETED)

\* bug: the item is never marked PROCESSING
MarkProcessing_Skip(fs, id) == fs

\* bug: the id test is missing, every item is marked PROCESSING at once
MarkProcessing_All(fs, id) == [k \in 1..Len(fs) |-> [fs[k] EXCEPT !.status = PROCESSING]]

\* prev.map(f => f.id === currentId ? {...f, status: PROCESSING} : f)
MarkProcessing(fs, id) ==
    [k \in 1..Len(fs) |->
        IF fs[k].id = id THEN [fs[k] EXCEPT !.status = PROCESSING] ELSE fs[k]]

\* bug: the size of the payload is not recorded
MarkCompleted_NoSize(fs, id, blob) ==
    [k \in 1..Len(fs) |->
        IF fs[k].id = id
        THEN [fs[k] EXCEPT !.status = COMPLETED, !.convertedBlob = blob]
        ELSE fs[k]]

\* bug: an item that is no longer in the list is put back
MarkCompleted_Upsert(fs, id, blob) ==
    IF \E k \in 1..Len(fs) : fs[k].id = id
    THEN [k \in 1..Len(fs) |->
            IF fs[k].id = id
            THEN [fs[k] EXCEPT !.status = COMPLETED, !.convertedBlob = blob,
                               !.convertedSize = blob.size]
            ELSE fs[k]]
    ELSE Append(fs, [id |-> id, file |-> <<"a", "png">>, previewUrl |-> ObjectUrl(id),
                     width |-> 1, height |-> 1, status |-> COMPLETED,
                     convertedBlob |-> blob, convertedSize |-> blob.size,
                     errorMessage |-> NoMessage])

\* prev.map(f => f.id === currentId ? {...f, status: COMPLETED, convertedBlob, convertedSize} : f)
MarkCompleted(fs, id, blob) ==
    [k \in 1..Len(fs) |->
        IF fs[k].id = id
        THEN [fs[k] EXCEPT !.status = COMPLETED, !.convertedBlob = blob,
                           !.convertedSize = blob.size]
        ELSE fs[k]]

\* bug: the item is built anew, without the spread of the old one
MarkError_Rebuilt(fs, id) ==
    [k \in 1..Len(fs) |->
        IF fs[k].id = id
        THEN [id |-> id, file |-> fs[k].file, previewUrl |-> <<>>, width |-> 0, height |-> 0,
              status |-> ERROR, convertedBlob |-> NoBlob, convertedSize |-> NoSize,
              errorMessage |-> "Failed"]
        ELSE fs[k]]

\* prev.map(f => f.id === currentId ? {...f, status: ERROR, errorMessage: 'Failed'} : f)
MarkError(fs, id) ==
    [k \in 1..Len(fs) |->
        IF fs[k].id = id
        THEN [fs[k] EXCEPT !.status = ERROR, !.errorMessage = "Failed"]
        ELSE fs[k]]

\* bug: the loop runs over the live list, so items added during the run are
\* taken up by it
ConvLoop_LiveList(fs, frame) ==
    LET added == SelectSeq(fs, LAMBDA f : f.status = IDLE /\
                     \A k \in 1..Len(frame.queue) : frame.queue[k].id # f.id)
        queue == frame.queue \o [k \in 1..Len(added) |->
                                   [id |-> added[k].id, file |-> added[k].file]]
    IN  IF frame.i < Len(queue)
        THEN [files |-> MarkProcessing(fs, queue[frame.i + 1].id),
              conv |-> [frame EXCEPT !.queue = queue, !.i = @ + 1, !.pc = "await",
                                     !.used = Append(@, frame.config)],
              isProcessing |-> TRUE]
        ELSE [files |-> fs,
              conv |-> [frame EXCEPT !.pc = "returned", !.config = DefaultConfig, !.used = <<>>],
              isProcessing |-> FALSE]

\* bug: each call is given the config of the latest render
ConvLoop_LiveConfig(fs, frame) ==
    IF frame.i < Len(frame.queue)
    THEN [files |-> MarkProcessing(fs, frame.queue[frame.i + 1].id),
          conv |-> [frame EXCEPT !.i = @ + 1, !.pc = "await", !.used = Append(@, config)],
          isProcessing |-> TRUE]
    ELSE [files |-> fs,
          conv |-> [frame EXCEPT !.pc = "returned", !.config = DefaultConfig, !.used = <<>>],
          isProcessing |-> FALSE]

\* the head of the for loop: the next item goes to PROCESSING and the transform
\* is awaited with the config of the closure, or the list is exhausted,
\* setIsProcessing(false) ends the run and the closure is released
ConvLoop(fs, frame) ==
    IF frame.i < Len(frame.queue)
    THEN [files |-> MarkProcessing(fs, frame.queue[frame.i + 1].id),
          conv |-> [frame EXCEPT !.i = @ + 1, !.pc = "await",
                                 !.used = Append(@, frame.config)],
          isProcessing |-> TRUE]
    ELSE [files |-> fs,
          conv |-> [frame EXCEPT !.pc = "returned", !.config = DefaultConfig, !.used = <<>>],
          isProcessing |-> FALSE]

\* the try block after the await: the item is COMPLETED, the count goes up
ConvTry(fs, frame, count, blob) ==
    [after |-> ConvLoop(MarkCompleted(fs, frame.queue[frame.i].id, blob),
                        [frame EXCEPT !.outcomes = Append(@, "ok")]),
     processedCount |-> count + 1]

\* bug: no catch block, the rejection leaves startConversion
ConvCatch_Rethrow(fs, frame, count) ==
    [after |-> [files |-> fs, conv |-> [frame EXCEPT !.pc = "thrown"],
                isProcessing |-> TRUE],
     processedCount |-> count]

\* the catch block: the item is ERROR, the count is left alone
ConvCatch(fs, frame, count) ==
    [after |-> ConvLoop(MarkError(fs, frame.queue[frame.i].id),
                        [frame EXCEPT !.outcomes = Append(@, "fail")]),
     processedCount |-> count]

\* bug: the button is not disabled while a run is active
CanStartConversion_WhileProcessing ==
    /\ Len(files) # 0
    /\ Len(SelectSeq(files, LAMBDA f : f.status = COMPLETED)) # Len(files)

\* the Execute Batch button is enabled
CanStartConversion ==
    /\ ~isProcessing
    /\ Len(files) # 0
    /\ Len(SelectSeq(files, LAMBDA f : f.status = COMPLETED)) # Len(files)

RECURSIVE TotalLen(_)
TotalLen(calls) == IF calls = <<>> THEN 0 ELSE Len(Head(calls)) + TotalLen(Tail(calls))

\* a drop or selection on the converter's Dropzone (disabled={isProcessing}):
\* handleFilesAdded starts and suspends at Promise.all(getImageDimensions ...)
FilesAddedCall(batch) ==
    /\ hook = ImageHook
    /\ ~isProcessing
    /\ Len(pendingAdds) < MaxPending
    /\ nextId + TotalLen(pendingAdds) + Len(batch) - 1 <= MaxIds
    /\ pendingAdds' = Append(pendingAdds, batch)
    /\ UNCHANGED <<hook, zipVars, unitVars, config, files, isProcessing, processedCount, conv, nextId, runs>>

\* every dimension lookup of the oldest call resolved: its items are appended,
\* each with an id of generateId() that no other item has
FilesAddedResolve ==
    /\ hook = ImageHook
    /\ pendingAdds # <<>>
    /\ files' = AppendImageFiles(files, Head(pendingAdds), nextId)
    /\ nextId' = nextId + Len(Head(pendingAdds))
    /\ pendingAdds' = Tail(pendingAdds)
    /\ UNCHANGED <<hook, zipVars, unitVars, config, isProcessing, processedCount, conv, runs>>

\* a dimension lookup rejected: Promise.all rejects and setFiles is never reached
FilesAddedReject ==
    /\ hook = ImageHook
    /\ pendingAdds # <<>>
    /\ pendingAdds' = Tail(pendingAdds)
    /\ UNCHANGED <<hook, zipVars, unitVars, config, files, isProcessing, processedCount, conv, nextId, runs>>

\* the row's remove button; FileItem gets a no-op onRemove while isProcessing
HandleRemoveFile(id) ==
    /\ hook = ImageHook
    /\ ~isProcessing
    /\ \E k \in 1..Len(files) : files[k].id = id
    /\ files' = RemoveById(files, id)
    /\ UNCHANGED <<hook, zipVars, unitVars, config, isProcessing, processedCount, pendingAdds, conv, nextId, runs>>

\* the Clear button, rendered only when files exist and not isProcessing
HandleClearAll ==
    /\ hook = ImageHook
    /\ ~isProcessing
    /\ files # <<>>
    /\ files' = <<>>
    /\ processedCount' = 0
    /\ UNCHANGED <<hook, zipVars, unitVars, config, isProcessing, pendingAdds, conv, nextId, runs>>

\* Execute Batch: startConversion up to its first await
StartConversion ==
    /\ hook = ImageHook
    /\ CanStartConversion
    /\ runs < MaxRuns
    /\ runs' = runs + 1
    /\ LET frame == [pc |-> "await",
                     queue |-> [k \in 1..Len(FilesToProcess(files)) |->
                                  [id |-> FilesToProcess(files)[k].id,
                                   file |-> FilesToProcess(files)[k].file]],
                     i |-> 0, outcomes |-> <<>>, config |-> config, used |-> <<>>]
           next == ConvLoop(files, frame)
       IN /\ files' = next.files
          /\ conv' = next.conv
          /\ isProcessing' = next.isProcessing
    /\ processedCount' = 0
    /\ UNCHANGED <<hook, zipVars, unitVars, config, pendingAdds, nextId>>

\* convertImageToJpg resolved with a blob
ConvResolve(blob) ==
    /\ hook = ImageHook
    /\ conv.pc = "await"
    /\ LET r == ConvTry(files, conv, processedCount, blob)
       IN /\ files' = r.after.files
          /\ conv' = r.after.conv
          /\ isProcessing' = r.after.isProcessing
          /\ processedCount' = r.processedCount
    /\ UNCHANGED <<hook, zipVars, unitVars, config, pendingAdds, nextId, runs>>

\* convertImageToJpg rejected
ConvReject ==
    /\ hook = ImageHook
    /\ conv.pc = "await"
    /\ LET r == ConvCatch(files, conv, processedCount)
       IN /\ files' = r.after.files
          /\ conv' = r.after.conv
          /\ isProcessing' = r.after.isProcessing
          /\ processedCount' = r.processedCount
    /\ UNCHANGED <<hook, zipVars, unitVars, config, pendingAdds, nextId, runs>>

\* the stops a range input is moved to: its min and its max
QualityStops == {10, 100}
ScaleStops == {1, 100}
TrimStops == {0, 50}
MatteColors == {"#FFFFFF", "#336699"}

\* the four controls of the view, each disabled={isProcessing}
\* bug: the slider stays enabled during a run
ChangeQuality_Enabled(value) ==
    /\ hook = ImageHook
    /\ config' = [config EXCEPT !.quality = value]
    /\ UNCHANGED <<hook, zipVars, unitVars, files, isProcessing, processedCount, pendingAdds, conv, nextId, runs>>

ChangeQuality(value) ==
    /\ hook = ImageHook
    /\ ~isProcessing
    /\ config' = [config EXCEPT !.quality = value]
    /\ UNCHANGED <<hook, zipVars, unitVars, files, isProcessing, processedCount, pendingAdds, conv, nextId, runs>>

ChangeScale(value) ==
    /\ hook = ImageHook
    /\ ~isProcessing
    /\ config' = [config EXCEPT !.scale = value]
    /\ UNCHANGED <<hook, zipVars, unitVars, files, isProcessing, processedCount, pendingAdds, conv, nextId, runs>>

ChangeTrimRight(value) ==
    /\ hook = ImageHook
    /\ ~isProcessing
    /\ config' = [config EXCEPT !.trimRight = value]
    /\ UNCHANGED <<hook, zipVars, unitVars, files, isProcessing, processedCount, pendingAdds, conv, nextId, runs>>

ChangeFillColor(value) ==
    /\ hook = ImageHook
    /\ ~isProcessing
    /\ config' = [config EXCEPT !.fillColor = value]
    /\ UNCHANGED <<hook, zipVars, unitVars, files, isProcessing, processedCount, pendingAdds, conv, nextId, runs>>

ControlsNext ==
    \/ \E value \in QualityStops : ChangeQuality(value)
    \/ \E value \in ScaleStops : ChangeScale(value)
    \/ \E value \in TrimStops : ChangeTrimRight(value)
    \/ \E value \in MatteColors : ChangeFillColor(value)

\* setConfig as the hook returns it, callable at any time
HookConfigs ==
    {DefaultConfig, [quality |-> 10, fillColor |-> "#336699", scale |-> 1, trimRight |-> 50]}

SetConfig(value) ==
    /\ hook = ImageHook
    /\ config' = value
    /\ UNCHANGED <<hook, zipVars, unitVars, files, isProcessing, processedCount, pendingAdds, conv, nextId, runs>>

ImageNext ==
    \/ \E batch \in Batches : FilesAddedCall(batch)
    \/ FilesAddedResolve
    \/ FilesAddedReject
    \/ \E id \in 1..MaxIds : HandleRemoveFile(id)
    \/ HandleClearAll
    \/ StartConversion
    \/ \E blob \in BlobsOf(runs) : ConvResolve(blob)
    \/ ConvReject

\* --------------------------------------------------- useBatchZipper
\* A path is a sequence of characters; "/" separates, every other token stands
\* for a run of ordinary characters. The files a drop can deliver:
Slash == "/"

ZipFilePool ==
    { [fid |-> "f1", name |-> "x", path |-> <<"A", Slash, "x">>, size |-> 1],
      [fid |-> "f2", name |-> "y", path |-> <<"A", Slash, "s", Slash, "y">>, size |-> 2],
      [fid |-> "f3", name |-> "x", path |-> <<"B", Slash, "x">>, size |-> 1],
      [fid |-> "f4", name |-> "x", path |-> <<"x">>, size |-> 2],
      [fid |-> "f5", name |-> "z", path |-> <<>>, size |-> 1],
      [fid |-> "f6", name |-> "x", path |-> <<"7", Slash, "x">>, size |-> 2],
      [fid |-> "f7", name |-> "x", path |-> <<"constructor", Slash, "x">>, size |-> 1] }

\* String.prototype.split('/'): the segments between separators, "" included
RECURSIVE SplitFrom(_, _)
SplitFrom(path, segs) ==
    IF path = <<>> THEN segs
    ELSE IF Head(path) = Slash
         THEN SplitFrom(Tail(path), Append(segs, <<>>))
         ELSE SplitFrom(Tail(path),
                        [segs EXCEPT ![Len(segs)] = Append(@, Head(path))])

Split(path) == SplitFrom(path, << <<>> >>)

\* property names every object literal inherits from Object.prototype
ObjectPrototypeKeys == { <<"constructor">>, <<"toString">>, <<"__proto__">> }

\* property names that are array indices: Object.keys lists them first
IntegerKeys == { <<"7">> }

\* folderGroups is an object literal: own properties in insertion order
HasOwn(groups, key) == \E k \in 1..Len(groups) : groups[k].name = key

\* folderGroups[rootFolder].push(file) on an own property
PushTo(groups, key, file) ==
    [k \in 1..Len(groups) |->
        IF groups[k].name = key
        THEN [groups[k] EXCEPT !.files = Append(@, file)]
        ELSE groups[k]]

NoGrouping == [folderGroups |-> <<>>, rootFiles |-> <<>>, thrown |-> FALSE]

\* one iteration of newFiles.forEach: !folderGroups[rootFolder] reads an inherited
\* property as truthy, and push on it is a TypeError that ends the handler
GroupStep(acc, file) ==
    LET pathParts == Split(file.path)
        rootFolder == pathParts[1]
    IN  IF acc.thrown THEN acc
        ELSE IF Len(pathParts) > 1
        THEN IF HasOwn(acc.folderGroups, rootFolder)
             THEN [acc EXCEPT !.folderGroups = PushTo(@, rootFolder, file)]
             ELSE IF rootFolder \in ObjectPrototypeKeys
                  THEN [acc EXCEPT !.thrown = TRUE]
                  ELSE [acc EXCEPT !.folderGroups =
                            Append(@, [name |-> rootFolder, files |-> <<file>>])]
        ELSE [acc EXCEPT !.rootFiles = Append(@, file)]

RECURSIVE GroupFrom(_, _)
GroupFrom(newFiles, acc) ==
    IF newFiles = <<>> THEN acc
    ELSE GroupFrom(Tail(newFiles), GroupStep(acc, Head(newFiles)))

\* lines 141-158 over the whole input
GroupFiles(newFiles) == GroupFrom(newFiles, NoGrouping)

\* Object.keys(folderGroups): index-like names first, then insertion order
ObjectKeys(groups) ==
    SelectSeq(groups, LAMBDA g : g.name \in IntegerKeys)
        \o SelectSeq(groups, LAMBDA g : g.name \notin IntegerKeys)

RECURSIVE SumSizes(_)
SumSizes(fs) == IF fs = <<>> THEN 0 ELSE Head(fs).size + SumSizes(Tail(fs))

NewZipTask(id, group) ==
    [id |-> id, folderName |-> group.name, files |-> group.files, status |-> IDLE,
     totalSize |-> SumSizes(group.files), progress |-> 0,
     zipBlob |-> NoBlob, zipSize |-> NoSize]

\* Object.keys(folderGroups).map(...)
NewTasks(groups, firstId) ==
    [k \in 1..Len(groups) |-> NewZipTask(firstId + k - 1, ObjectKeys(groups)[k])]

PoolFile(fid) == CHOOSE f \in ZipFilePool : f.fid = fid

\* the drops the zipper's Dropzone delivers in the hook-level behaviours
Drops ==
    { <<PoolFile("f1"), PoolFile("f2")>>,
      <<PoolFile("f1"), PoolFile("f3"), PoolFile("f4")>>,
      <<PoolFile("f4"), PoolFile("f5")>>,
      <<PoolFile("f3"), PoolFile("f6")>>,
      <<PoolFile("f3"), PoolFile("f7")>> }

\* zipTasks.filter(t => t.status !== ConversionStatus.COMPLETED)
TasksToProcess(ts) == SelectSeq(ts, LAMBDA t : t.status # COMPLETED)

\* bug: the progress of the last attempt is kept
MarkZipProcessing_KeepProgress(ts, id) ==
    [k \in 1..Len(ts) |->
        IF ts[k].id = id THEN [ts[k] EXCEPT !.status = PROCESSING] ELSE ts[k]]

\* prev.map(t => t.id === task.id ? {...t, status: PROCESSING, progress: 0} : t)
MarkZipProcessing(ts, id) ==
    [k \in 1..Len(ts) |->
        IF ts[k].id = id
        THEN [ts[k] EXCEPT !.status = PROCESSING, !.progress = 0]
        ELSE ts[k]]

\* bug: the callback stores what is left instead of what is done
SetProgress_Remaining(ts, id, percent) ==
    [k \in 1..Len(ts) |->
        IF ts[k].id = id THEN [ts[k] EXCEPT !.progress = 100 - percent] ELSE ts[k]]

\* the progress callback: prev.map(t => t.id === task.id ? {...t, progress: metadata.percent} : t)
SetProgress(ts, id, percent) ==
    [k \in 1..Len(ts) |->
        IF ts[k].id = id THEN [ts[k] EXCEPT !.progress = percent] ELSE ts[k]]

\* bug: the archive's size is stored over the input size
MarkZipCompleted_SizeOverTotal(ts, id, blob) ==
    [k \in 1..Len(ts) |->
        IF ts[k].id = id
        THEN [ts[k] EXCEPT !.status = COMPLETED, !.zipBlob = blob,
                           !.totalSize = blob.size, !.progress = 100]
        ELSE ts[k]]

\* prev.map(t => t.id === task.id ? {...t, status: COMPLETED, zipBlob, zipSize, progress: 100} : t)
MarkZipCompleted(ts, id, blob) ==
    [k \in 1..Len(ts) |->
        IF ts[k].id = id
        THEN [ts[k] EXCEPT !.status = COMPLETED, !.zipBlob = blob,
                           !.zipSize = blob.size, !.progress = 100]
        ELSE ts[k]]

\* prev.map(t => t.id === task.id ? {...t, status: ERROR} : t)
MarkZipError(ts, id) ==
    [k \in 1..Len(ts) |->
        IF ts[k].id = id THEN [ts[k] EXCEPT !.status = ERROR] ELSE ts[k]]

\* Array.prototype.join('/')
RECURSIVE Join(_)
Join(segs) ==
    IF segs = <<>> THEN <<>>
    ELSE IF Len(segs) = 1 THEN segs[1]
    ELSE segs[1] \o <<Slash>> \o Join(Tail(segs))

\* bug: the folder segment is kept
RelativePath_KeepRoot(file) == Join(Split(file.path))

\* file.webkitRelativePath.split('/').slice(1).join('/')
RelativePath(file) == Join(Tail(Split(file.path)))

\* task.files.forEach(...): the zip.file calls of one task, in order; an empty
\* relativePath is falsy and the file goes in under its name
AddEntries(members) ==
    [k \in 1..Len(members) |->
        [name |-> IF RelativePath(members[k]) # <<>> THEN RelativePath(members[k])
                  ELSE <<members[k].name>>,
         file |-> members[k].fid]]

\* the head of for (const task of tasksToProcess): the next task goes to
\* PROCESSING and generateAsync of a new archive (nothing reported yet) is
\* awaited, or setIsZipping(false) ends the run
ZipLoop(ts, frame) ==
    IF frame.i < Len(frame.queue)
    THEN [zipTasks |-> MarkZipProcessing(ts, frame.queue[frame.i + 1].id),
          zip |-> [frame EXCEPT !.i = @ + 1, !.pc = "await", !.percent = 0,
                                !.entries = AddEntries(frame.queue[frame.i + 1].files)],
          isZipping |-> TRUE]
    ELSE [zipTasks |-> ts,
          zip |-> [frame EXCEPT !.pc = "returned", !.percent = 0, !.entries = <<>>],
          isZipping |-> FALSE]

ZipTry(ts, frame, blob) ==
    ZipLoop(MarkZipCompleted(ts, frame.queue[frame.i].id, blob),
            [frame EXCEPT !.outcomes = Append(@, "ok")])

\* bug: no catch block, the rejection leaves startBatchZipping
ZipCatch_Rethrow(ts, frame) ==
    [zipTasks |-> ts, zip |-> [frame EXCEPT !.pc = "thrown"], isZipping |-> TRUE]

ZipCatch(ts, frame) ==
    ZipLoop(MarkZipError(ts, frame.queue[frame.i].id),
            [frame EXCEPT !.outcomes = Append(@, "fail")])

\* the Zip All Folders button is enabled
CanStartBatchZipping ==
    /\ ~isZipping
    /\ Len(zipTasks) # 0
    /\ Len(SelectSeq(zipTasks, LAMBDA t : t.status = COMPLETED)) # Len(zipTasks)

\* percentages generateAsync reports
Percents == {0, 50, 100}

\* a drop on the zipper's Dropzone (disabled={isZipping}, one scan at a time):
\* the scan is started
FoldersDropped(drop) ==
    /\ hook = ZipHook
    /\ ~isZipping
    /\ scan = <<>>
    /\ nextId + Len(GroupFiles(drop).folderGroups) - 1 <= MaxIds
    /\ scan' = drop
    /\ UNCHANGED <<hook, imageVars, zipTasks, isZipping, zip, unitVars, nextId, runs>>

\* the scan hands its files to handleFoldersAdded; a TypeError thrown by the
\* grouping leaves before setZipTasks and is caught by handleDrop
HandleFoldersAdded ==
    /\ hook = ZipHook
    /\ scan # <<>>
    /\ LET g == GroupFiles(scan)
           newTasks == NewTasks(g.folderGroups, nextId)
       IN  IF g.thrown
           THEN UNCHANGED <<zipTasks, nextId>>
           ELSE /\ zipTasks' = zipTasks \o newTasks
                /\ nextId' = nextId + Len(newTasks)
    /\ scan' = <<>>
    /\ UNCHANGED <<hook, imageVars, isZipping, zip, unitVars, runs>>

\* the remove button of a task row is shown for IDLE tasks while not zipping
HandleRemoveZipTask(id) ==
    /\ hook = ZipHook
    /\ ~isZipping
    /\ \E k \in 1..Len(zipTasks) : zipTasks[k].id = id /\ zipTasks[k].status = IDLE
    /\ zipTasks' = RemoveById(zipTasks, id)
    /\ UNCHANGED <<hook, imageVars, isZipping, scan, zip, unitVars, nextId, runs>>

\* the Clear button, rendered only when tasks exist and not isZipping
HandleClearZipTasks ==
    /\ hook = ZipHook
    /\ ~isZipping
    /\ zipTasks # <<>>
    /\ zipTasks' = <<>>
    /\ UNCHANGED <<hook, imageVars, isZipping, scan, zip, unitVars, nextId, runs>>

\* Zip All Folders: startBatchZipping up to its first await
StartBatchZipping ==
    /\ hook = ZipHook
    /\ CanStartBatchZipping
    /\ runs < MaxRuns
    /\ runs' = runs + 1
    /\ LET frame == [pc |-> "await",
                     queue |-> [k \in 1..Len(TasksToProcess(zipTasks)) |->
                                  [id |-> TasksToProcess(zipTasks)[k].id,
                                   files |-> TasksToProcess(zipTasks)[k].files]],
                     i |-> 0, outcomes |-> <<>>, percent |-> 0, entries |-> <<>>]
           next == ZipLoop(zipTasks, frame)
       IN /\ zipTasks' = next.zipTasks
          /\ zip' = next.zip
          /\ isZipping' = next.isZipping
    /\ UNCHANGED <<hook, imageVars, scan, unitVars, nextId>>

\* generateAsync reports progress; its percentages never go down
ZipProgress(percent) ==
    /\ hook = ZipHook
    /\ zip.pc = "await"
    /\ percent >= zip.percent
    /\ zipTasks' = SetProgress(zipTasks, zip.queue[zip.i].id, percent)
    /\ zip' = [zip EXCEPT !.percent = percent]
    /\ UNCHANGED <<hook, imageVars, isZipping, scan, unitVars, nextId, runs>>

\* generateAsync resolved with the archive
ZipResolve(blob) ==
    /\ hook = ZipHook
    /\ zip.pc = "await"
    /\ LET next == ZipTry(zipTasks, zip, blob)
       IN /\ zipTasks' = next.zipTasks
          /\ zip' = next.zip
          /\ isZipping' = next.isZipping
    /\ UNCHANGED <<hook, imageVars, scan, unitVars, nextId, runs>>

\* getZip, zip.file or generateAsync threw
ZipReject ==
    /\ hook = ZipHook
    /\ zip.pc = "await"
    /\ LET next == ZipCatch(zipTasks, zip)
       IN /\ zipTasks' = next.zipTasks
          /\ zip' = next.zip
          /\ isZipping' = next.isZipping
    /\ UNCHANGED <<hook, imageVars, scan, unitVars, nextId, runs>>

ZipNext ==
    \/ \E drop \in Drops : FoldersDropped(drop)
    \/ HandleFoldersAdded
    \/ \E id \in 1..MaxIds : HandleRemoveZipTask(id)
    \/ HandleClearZipTasks
    \/ StartBatchZipping
    \/ \E percent \in Percents : ZipProgress(percent)
    \/ \E blob \in BlobsOf(runs) : ZipResolve(blob)
    \/ ZipReject

\* --------------------------------------------- the archiving of a task
\* startBatchZipping over the tasks one handleFoldersAdded call has made of
\* files whose paths have one, several or no segment after the folder's
ArchiveMembers ==
    { [fid |-> "m1", name |-> "x", path |-> <<"A", Slash, "x">>, size |-> 1],
      [fid |-> "m2", name |-> "y", path |-> <<"A", Slash, "s", Slash, "y">>, size |-> 2],
      [fid |-> "m3", name |-> "z", path |-> <<"A", Slash>>, size |-> 1],
      [fid |-> "m4", name |-> "x", path |-> <<"A", Slash, "s", Slash, "x">>, size |-> 1],
      [fid |-> "m5", name |-> "x", path |-> <<"B", Slash, "x">>, size |-> 2] }

ArchivingNext ==
    \/ StartBatchZipping
    \/ \E percent \in Percents : ZipProgress(percent)
    \/ \E blob \in BlobsOf(runs) : ZipResolve(blob)
    \/ ZipReject

\* ------------------------------------------- handleFoldersAdded alone
\* Inputs of the grouping: lists of distinct files of the pool
DistinctSeqs(pool, n) ==
    {q \in UNION {[1..m -> pool] : m \in 0..n} :
        \A a, b \in 1..Len(q) : a # b => q[a] # q[b]}

NoCall == [pc |-> "none", newFiles |-> <<>>, k |-> 0, acc |-> NoGrouping, newTasks |-> <<>>]

\* one iteration of newFiles.forEach
GroupingForEach ==
    /\ hook = GroupingUnit
    /\ grouping.pc = "forEach"
    /\ grouping.k < Len(grouping.newFiles)
    /\ LET acc == GroupStep(grouping.acc, grouping.newFiles[grouping.k + 1])
       IN  grouping' = [grouping EXCEPT !.acc = acc, !.k = @ + 1,
                                        !.pc = IF acc.thrown THEN "thrown" ELSE "forEach"]
    /\ UNCHANGED <<hook, imageVars, zipVars, traversal, canvas, exported, ingest, nextId, runs>>

\* Object.keys(folderGroups).map(...) and setZipTasks
GroupingMap ==
    /\ hook = GroupingUnit
    /\ grouping.pc = "forEach"
    /\ grouping.k = Len(grouping.newFiles)
    /\ grouping' = [grouping EXCEPT !.newTasks = NewTasks(grouping.acc.folderGroups, nextId),
                                    !.pc = "done"]
    /\ UNCHANGED <<hook, imageVars, zipVars, traversal, canvas, exported, ingest, nextId, runs>>

GroupingNext == GroupingForEach \/ GroupingMap

\* ------------------------------------------- Dropzone: the folder scan
\* One folder-mode drop, from handleDrop's call to the end of its try block.
\* The file system answers one callback at a time; the promise reactions
\* that follow a callback run before the next callback.
ScanUnit == "handleDrop"

MaxKids == 2         \* entries one directory holds
MaxFaults == 1       \* reads the file system fails in one scan

\* entries one readEntries call returns at most
PageSizes == {1, 2}

EntryNames == {"x", "y"}

FileEntry(name) == [isFile |-> TRUE, isDirectory |-> FALSE, name |-> name, kids |-> <<>>]

DirectoryEntry(name, kids) == [isFile |-> FALSE, isDirectory |-> TRUE, name |-> name, kids |-> kids]

\* the listings of a directory: its entries have distinct names
Listings(pool, n) ==
    {q \in UNION {[1..m -> pool] : m \in 0..n} :
        \A a, b \in 1..Len(q) : a # b => q[a].name # q[b].name}

FileEntries == {FileEntry(n) : n \in EntryNames}
InnerDirectories == {DirectoryEntry("s", k) : k \in Listings(FileEntries, MaxKids)}
OuterDirectories == {DirectoryEntry("A", k) : k \in Listings(FileEntries \cup InnerDirectories, MaxKids)}

\* what one drop carries: one entry, or an entry followed by a file or a flat folder
DroppedItems ==
    LET pool == FileEntries \cup InnerDirectories \cup OuterDirectories
        flat == FileEntries \cup InnerDirectories
    IN  {<<e>> : e \in pool}
        \cup {<<e[1], e[2]>> : e \in {p \in pool \X flat : p[1].name # p[2].name}}

\* the entry an address leads to: an address is the chain of positions from the drop
RECURSIVE EntryAt(_, _)
EntryAt(items, addr) ==
    IF Len(addr) = 1 THEN items[addr[1]]
    ELSE EntryAt(items[addr[1]].kids, Tail(addr))

\* a traverseFileTree(entry, path) call that has just been made
NewTraverse(path) ==
    [path |-> path, entries |-> <<>>, offset |-> 0, listed |-> FALSE,
     settled |-> FALSE, result |-> <<>>]

\* the File the success callback of entry.file() yields, with its path defined
ScannedFile(addr, entry, path) ==
    [fid |-> addr, name |-> entry.name, path |-> path \o <<entry.name>>, size |-> 1]

\* what the reader returns to the next readEntries call
ReadBatch(entry, offset, pageSize) ==
    LET n == IF Len(entry.kids) - offset < pageSize THEN Len(entry.kids) - offset ELSE pageSize
    IN  [k \in 1..n |-> offset + k]

\* bug: each batch replaces the entries read so far
AppendBatch_Overwrite(entries, batch) == batch

\* entries.push(...readResults)
AppendBatch(entries, batch) == entries \o batch

\* results.flat(): the children's results in the order of the calls
RECURSIVE FlatResults(_, _, _)
FlatResults(calls, parent, entries) ==
    IF entries = <<>> THEN <<>>
    ELSE calls[parent \o <<Head(entries)>>].result \o FlatResults(calls, parent, Tail(entries))

\* bug: a directory's result ends with the files of the child that settled last
RECURSIVE SettleUp_LastSettledLast(_, _)
SettleUp_LastSettledLast(calls, addr) ==
    IF Len(addr) = 1 THEN calls
    ELSE LET parent == SubSeq(addr, 1, Len(addr) - 1)
             others == SelectSeq(calls[parent].entries, LAMBDA e : e # addr[Len(addr)])
         IN  IF \A k \in 1..Len(calls[parent].entries) :
                    calls[parent \o <<calls[parent].entries[k]>>].settled
             THEN SettleUp_LastSettledLast(
                      [calls EXCEPT ![parent].settled = TRUE,
                                    ![parent].result = FlatResults(calls, parent, others)
                                                           \o calls[addr].result],
                      parent)
             ELSE calls

\* Promise.all of a directory's children: settles the directory once the last child has,
\* and so on upwards
RECURSIVE SettleUp(_, _)
SettleUp(calls, addr) ==
    IF Len(addr) = 1 THEN calls
    ELSE LET parent == SubSeq(addr, 1, Len(addr) - 1)
         IN  IF \A k \in 1..Len(calls[parent].entries) :
                    calls[parent \o <<calls[parent].entries[k]>>].settled
             THEN SettleUp([calls EXCEPT ![parent].settled = TRUE,
                                         ![parent].result = FlatResults(calls, parent, calls[parent].entries)],
                           parent)
             ELSE calls

NoScan ==
    [pc |-> "none", items |-> <<>>, pageSize |-> 0, calls |-> <<>>, isScanning |-> FALSE,
     allFiles |-> <<>>, handedOff |-> <<>>, error |-> "null", faults |-> {},
     overtaken |-> FALSE, refused |-> FALSE]

\* handleDrop up to its await: every dropped entry gets a traverseFileTree(entry, '')
BeginScan(items, pageSize) ==
    [NoScan EXCEPT !.pc = "scanning", !.items = items, !.pageSize = pageSize,
                   !.isScanning = TRUE,
                   !.calls = [a \in {<<k>> : k \in 1..Len(items)} |-> NewTraverse(<<>>)]]

\* bug: the files are handed over as soon as one dropped entry is through
EndScan_FirstEntry(t, calls) ==
    IF \E k \in 1..Len(t.items) : calls[<<k>>].settled
    THEN LET allFiles == FlatResults(calls, <<>>, [k \in 1..Len(t.items) |-> k])
         IN  [t EXCEPT !.calls = calls, !.allFiles = allFiles, !.isScanning = FALSE,
                       !.pc = IF Len(allFiles) > 0 THEN "delivered" ELSE "empty",
                       !.handedOff = IF Len(allFiles) > 0 THEN <<allFiles>> ELSE <<>>,
                       !.error = IF Len(allFiles) > 0 THEN "null"
                                 ELSE "No files found in dropped folders."]
    ELSE [t EXCEPT !.calls = calls]

\* the rest of handleDrop's try block, once the Promise.all of the drop resolves
EndScan(t, calls) ==
    IF \A k \in 1..Len(t.items) : calls[<<k>>].settled
    THEN LET allFiles == FlatResults(calls, <<>>, [k \in 1..Len(t.items) |-> k])
         IN  [t EXCEPT !.calls = calls, !.allFiles = allFiles, !.isScanning = FALSE,
                       !.pc = IF Len(allFiles) > 0 THEN "delivered" ELSE "empty",
                       !.handedOff = IF Len(allFiles) > 0 THEN <<allFiles>> ELSE <<>>,
                       !.error = IF Len(allFiles) > 0 THEN "null"
                                 ELSE "No files found in dropped folders."]
    ELSE [t EXCEPT !.calls = calls]

\* a comes before b in the depth-first walk of the drop
WalkedBefore(a, b) ==
    \E i \in 1..Len(a) :
        /\ i <= Len(b)
        /\ \A j \in 1..(i - 1) : a[j] = b[j]
        /\ a[i] < b[i]

\* the call at addr settles while a call that comes before it in the walk has not
Overtakes(t, addr) ==
    t.overtaken \/ \E a \in DOMAIN t.calls : ~t.calls[a].settled /\ WalkedBefore(a, addr)

Pending(addr) ==
    /\ hook = ScanUnit
    /\ traversal.pc = "scanning"
    /\ addr \in DOMAIN traversal.calls
    /\ ~traversal.calls[addr].settled

\* entry.file() calls back with the File
FileCallback(addr) ==
    /\ Pending(addr)
    /\ EntryAt(traversal.items, addr).isFile
    /\ LET call == traversal.calls[addr]
           file == ScannedFile(addr, EntryAt(traversal.items, addr), call.path)
           calls == [traversal.calls EXCEPT ![addr].settled = TRUE, ![addr].result = <<file>>]
       IN  traversal' = EndScan([traversal EXCEPT !.overtaken = Overtakes(traversal, addr)],
                                SettleUp(calls, addr))
    /\ UNCHANGED <<hook, imageVars, zipVars, grouping, canvas, exported, ingest, nextId, runs>>

\* entry.file() calls its error callback: resolve([])
FileErrorCallback(addr) ==
    /\ Pending(addr)
    /\ EntryAt(traversal.items, addr).isFile
    /\ Cardinality(traversal.faults) < MaxFaults
    /\ LET calls == [traversal.calls EXCEPT ![addr].settled = TRUE, ![addr].result = <<>>]
           t == [traversal EXCEPT !.faults = @ \cup {addr},
                                  !.overtaken = Overtakes(traversal, addr)]
       IN  traversal' = EndScan(t, SettleUp(calls, addr))
    /\ UNCHANGED <<hook, imageVars, zipVars, grouping, canvas, exported, ingest, nextId, runs>>

\* readEntries calls back with a batch: a non-empty batch is kept and the reader asked
\* again; the empty batch ends the listing and starts the children's calls
ReadEntriesCallback(addr) ==
    /\ Pending(addr)
    /\ EntryAt(traversal.items, addr).isDirectory
    /\ ~traversal.calls[addr].listed
    /\ LET entry == EntryAt(traversal.items, addr)
           call == traversal.calls[addr]
           batch == ReadBatch(entry, call.offset, traversal.pageSize)
       IN  IF Len(batch) > 0
           THEN traversal' = [traversal EXCEPT
                                 !.calls[addr].entries = AppendBatch(call.entries, batch),
                                 !.calls[addr].offset = call.offset + Len(batch)]
           ELSE LET kids == {addr \o <<call.entries[k]>> : k \in 1..Len(call.entries)}
                    started == [a \in DOMAIN traversal.calls \cup kids |->
                                   IF a \in kids THEN NewTraverse(call.path \o <<entry.name, Slash>>)
                                   ELSE traversal.calls[a]]
                    listed == [started EXCEPT ![addr].listed = TRUE]
                IN  IF kids = {}
                    THEN traversal' = EndScan(traversal,
                                SettleUp([listed EXCEPT ![addr].settled = TRUE], addr))
                    ELSE traversal' = [traversal EXCEPT !.calls = listed]
    /\ UNCHANGED <<hook, imageVars, zipVars, grouping, canvas, exported, ingest, nextId, runs>>

\* readEntries calls its error callback: the rejection passes every Promise.all
\* above it and lands in handleDrop's catch
ReadEntriesError(addr) ==
    /\ Pending(addr)
    /\ EntryAt(traversal.items, addr).isDirectory
    /\ ~traversal.calls[addr].listed
    /\ Cardinality(traversal.faults) < MaxFaults
    /\ traversal' = [traversal EXCEPT !.pc = "failed", !.isScanning = FALSE,
                                      !.faults = @ \cup {addr},
                                      !.error = "Failed to scan directory structure."]
    /\ UNCHANGED <<hook, imageVars, zipVars, grouping, canvas, exported, ingest, nextId, runs>>

\* the addresses a call can have
\* bug: a drop is taken while a scan is in flight
DropAccepted_WhileScanning(t, disabled) == ~disabled

\* if (disabled || isScanning) return
DropAccepted(t, disabled) == ~(disabled \/ t.isScanning)

\* the folder drops the Dropzone is given in the behaviours that start idle:
\* a single entry
SingleDrops == {items \in DroppedItems : Len(items) = 1}

\* handleDrop in folder mode with directory entries: a drop that is not accepted
\* returns at once (noted in refused), an accepted one starts the scan
HandleDrop(items, pageSize, disabled) ==
    /\ hook = ScanUnit
    /\ traversal' = IF DropAccepted(traversal, disabled)
                    THEN [BeginScan(items, pageSize) EXCEPT !.refused = traversal.refused]
                    ELSE [traversal EXCEPT !.refused = TRUE]
    /\ UNCHANGED <<hook, imageVars, zipVars, grouping, canvas, exported, ingest, nextId, runs>>

Addresses == UNION {[1..n -> 1..MaxKids] : n \in 1..3}

ScanNext ==
    \E addr \in Addresses :
        \/ FileCallback(addr)
        \/ FileErrorCallback(addr)
        \/ ReadEntriesCallback(addr)
        \/ ReadEntriesError(addr)

\* ---------------------------------------- imageHelper: convertImageToJpg
\* One convertImageToJpg(file, config) call, callback by callback, and the
\* img.onload handler statement by statement.
TransformUnit == "convertImageToJpg"

MaxDim == 2          \* native width and height of the decoded image, in pixels

\* a pixel of the decoded image: fully transparent or opaque
Clear == "clear"
Ink == "ink"

\* what JPEG stores for a pixel the canvas never painted: transparent black, without alpha
Unpainted == "#000000"

FillColors == {"#FFFFFF", "#336699"}

\* config.scale in percent, as the scale slider produces it
ScalePercents == {50, 100}

\* the decoded images: width, height and the pixel at each (x, y)
Images ==
    UNION {{[width |-> w, height |-> h, pixels |-> px] :
               px \in [(1..w) \X (1..h) -> {Clear, Ink}]} : w \in 1..MaxDim, h \in 1..MaxDim}

Configs ==
    {[quality |-> 90, fillColor |-> c, scale |-> s, trimRight |-> t] :
        c \in FillColors, s \in ScalePercents, t \in 0..MaxDim}

NoCanvas ==
    [pc |-> "none", img |-> [width |-> 0, height |-> 0, pixels |-> <<>>],
     config |-> [quality |-> 90, fillColor |-> "#FFFFFF", scale |-> 100, trimRight |-> 0],
     width |-> 0, height |-> 0, surface |-> <<>>, blob |-> <<>>, error |-> "none"]

\* document.createElement('canvas') sized to the image: every pixel transparent
CreateCanvas(c) ==
    [c EXCEPT !.width = c.img.width, !.height = c.img.height,
              !.surface = [p \in (1..c.img.width) \X (1..c.img.height) |-> Clear]]

\* bug: the background is never filled
FillRect_Skip(surface, fillStyle) == surface

\* ctx.fillStyle = config.fillColor; ctx.fillRect(0, 0, canvas.width, canvas.height)
FillRect(surface, fillStyle) == [p \in DOMAIN surface |-> fillStyle]

\* ctx.drawImage(img, 0, 0): source-over, clipped to the canvas
DrawImage(surface, img) ==
    [p \in DOMAIN surface |->
        IF p \in DOMAIN img.pixels /\ img.pixels[p] # Clear THEN img.pixels[p] ELSE surface[p]]

\* the image/jpeg encoding of the canvas
EncodeJpeg(c) ==
    [width |-> c.width, height |-> c.height,
     pixels |-> [p \in DOMAIN c.surface |-> IF c.surface[p] = Clear THEN Unpainted ELSE c.surface[p]]]

\* bug: the error is noted but the promise is left unsettled
Reject_Unsettled(c, message) == [c EXCEPT !.error = message]

\* reject(new Error(message)); nothing runs after it
Reject(c, message) == [c EXCEPT !.pc = "rejected", !.error = message]

CanvasFrame == <<hook, imageVars, zipVars, grouping, traversal, exported, ingest, nextId, runs>>

\* reader.onload: the image starts decoding
ReaderLoad ==
    /\ hook = TransformUnit
    /\ canvas.pc = "readAsDataURL"
    /\ canvas' = [canvas EXCEPT !.pc = "decode"]
    /\ UNCHANGED CanvasFrame

ReaderError ==
    /\ hook = TransformUnit
    /\ canvas.pc = "readAsDataURL"
    /\ canvas' = Reject(canvas, "Failed to read file")
    /\ UNCHANGED CanvasFrame

ImageError ==
    /\ hook = TransformUnit
    /\ canvas.pc = "decode"
    /\ canvas' = Reject(canvas, "Failed to load image")
    /\ UNCHANGED CanvasFrame

\* img.onload, up to the test of the 2d context
ImageLoad(hasContext) ==
    /\ hook = TransformUnit
    /\ canvas.pc = "decode"
    /\ canvas' = IF hasContext THEN [CreateCanvas(canvas) EXCEPT !.pc = "context"]
                 ELSE Reject(CreateCanvas(canvas), "Canvas context could not be created")
    /\ UNCHANGED CanvasFrame

FillBackground ==
    /\ hook = TransformUnit
    /\ canvas.pc = "context"
    /\ canvas' = [canvas EXCEPT !.pc = "filled",
                                !.surface = FillRect(canvas.surface, canvas.config.fillColor)]
    /\ UNCHANGED CanvasFrame

Draw ==
    /\ hook = TransformUnit
    /\ canvas.pc = "filled"
    /\ canvas' = [canvas EXCEPT !.pc = "drawn", !.surface = DrawImage(canvas.surface, canvas.img)]
    /\ UNCHANGED CanvasFrame

\* canvas.toBlob calls back with the blob, or with null
ToBlob(encoded) ==
    /\ hook = TransformUnit
    /\ canvas.pc = "drawn"
    /\ canvas' = IF encoded THEN [canvas EXCEPT !.pc = "resolved", !.blob = EncodeJpeg(canvas)]
                 ELSE Reject(canvas, "Canvas conversion failed")
    /\ UNCHANGED CanvasFrame

TransformNext ==
    \/ ReaderLoad
    \/ ReaderError
    \/ ImageError
    \/ \E hasContext \in BOOLEAN : ImageLoad(hasContext)
    \/ FillBackground
    \/ Draw
    \/ \E encoded \in BOOLEAN : ToBlob(encoded)

\* ------------------------------------------------------ the downloads
\* downloadZip, downloadOneZip and downloadAllZips read the hook's state and
\* hand files to the browser; `exported` holds what the last call handed over.
\* A file name is the list of its '.'-separated parts: a.png is <<"a", "png">>.
MaxParts == 2        \* '.'-separated parts of a file name given to the naming rule

NamingUnit == "fileName"

NameParts == {"a", "png", "PNG", "jpg", "Jpeg", "jpe", "txt", ""}

FileNames == UNION {[1..n -> NameParts] : n \in 1..MaxParts}

\* the lower-case form of a part, as the i flag compares it
LowerCase(part) ==
    CASE part = "PNG" -> "png"
      [] part = "Jpeg" -> "jpeg"
      [] OTHER -> part

\* bug: the i flag is missing
ExtensionMatches_CaseSensitive(name) ==
    Len(name) >= 2 /\ name[Len(name)] \in {"png", "jpg", "jpeg"}

\* /\.(png|jpe?g)$/i matches: a '.' followed by png, jpg or jpeg ends the name
ExtensionMatches(name) ==
    Len(name) >= 2 /\ LowerCase(name[Len(name)]) \in {"png", "jpg", "jpeg"}

\* f.file.name.replace(/\.(png|jpe?g)$/i, '') + '.jpg'
ExportFileName(name) ==
    (IF ExtensionMatches(name) THEN SubSeq(name, 1, Len(name) - 1) ELSE name) \o <<"jpg">>

\* files.filter(f => f.status === ConversionStatus.COMPLETED && f.convertedBlob)
CompletedFiles(fs) == SelectSeq(fs, LAMBDA f : f.status = COMPLETED /\ f.convertedBlob # NoBlob)

\* zip.file(name, data): a name the archive already holds gets the new data
ZipFile(archive, name, data) ==
    IF \E k \in 1..Len(archive) : archive[k].name = name
    THEN [k \in 1..Len(archive) |->
             IF archive[k].name = name THEN [archive[k] EXCEPT !.data = data] ELSE archive[k]]
    ELSE Append(archive, [name |-> name, data |-> data])

\* completedFiles.forEach(...)
RECURSIVE AddCompleted(_, _)
AddCompleted(archive, completed) ==
    IF completed = <<>> THEN archive
    ELSE AddCompleted(ZipFile(archive, ExportFileName(Head(completed).file),
                              Head(completed).convertedBlob),
                      Tail(completed))

NoExport == [pc |-> "none", named |-> <<>>, archive |-> <<>>, downloads |-> <<>>, alerts |-> 0]

\* what the archiver does with one downloadZip call
ZipOutcomes == {"ok", "getZip throws", "generateAsync rejects"}

\* downloadZip from its first line to its return
ExportImages(fs, outcome) ==
    LET completed == CompletedFiles(fs)
        called == [NoExport EXCEPT !.pc = "downloadZip"]
        named == [k \in 1..Len(completed) |->
                     [id |-> completed[k].id, fileName |-> ExportFileName(completed[k].file)]]
        archive == AddCompleted(<<>>, completed)
    IN  IF outcome = "getZip throws" THEN [called EXCEPT !.alerts = 1]
        ELSE IF Len(completed) = 0 THEN called
        ELSE IF outcome = "generateAsync rejects"
             THEN [called EXCEPT !.named = named, !.archive = archive, !.alerts = 1]
        ELSE [called EXCEPT !.named = named, !.archive = archive,
                            !.downloads = <<[name |-> "BatchBox_Images", content |-> archive]>>]

\* downloadOneZip(task), appended to the downloads of the calling handler
SaveOneZip(downloads, task) ==
    IF task.zipBlob = NoBlob THEN downloads
    ELSE Append(downloads, [name |-> task.folderName, content |-> task.zipBlob])

\* zipTasks.forEach(task => ...) of downloadAllZips
RECURSIVE SaveAllZips(_, _)
SaveAllZips(downloads, tasks) ==
    IF tasks = <<>> THEN downloads
    ELSE SaveAllZips(IF Head(tasks).status = COMPLETED THEN SaveOneZip(downloads, Head(tasks))
                     ELSE downloads,
                     Tail(tasks))

ExportFrame == <<hook, grouping, traversal, canvas, ingest, nextId, runs>>

\* bug: the collection is emptied once its archive is handed over
DownloadZip_Clears(outcome) ==
    /\ hook = ImageHook
    /\ exported' = ExportImages(files, outcome)
    /\ files' = IF exported'.downloads # <<>> THEN <<>> ELSE files
    /\ UNCHANGED <<isProcessing, processedCount, pendingAdds, conv, config, zipVars, ExportFrame>>

\* the view offers the button when something is Completed and no run is on;
\* the handler is followed from every state of the hook
DownloadZip(outcome) ==
    /\ hook = ImageHook
    /\ exported' = ExportImages(files, outcome)
    /\ UNCHANGED <<imageVars, zipVars, ExportFrame>>

DownloadOneZip(id) ==
    /\ hook = ZipHook
    /\ \E k \in 1..Len(zipTasks) :
           /\ zipTasks[k].id = id
           /\ exported' = [NoExport EXCEPT !.pc = "downloadOneZip",
                                           !.downloads = SaveOneZip(<<>>, zipTasks[k])]
    /\ UNCHANGED <<imageVars, zipVars, ExportFrame>>

DownloadAllZips ==
    /\ hook = ZipHook
    /\ exported' = [NoExport EXCEPT !.pc = "downloadAllZips",
                                    !.downloads = SaveAllZips(<<>>, zipTasks)]
    /\ UNCHANGED <<imageVars, zipVars, ExportFrame>>

ExportNext ==
    \/ \E outcome \in ZipOutcomes : DownloadZip(outcome)
    \/ \E id \in 1..MaxIds : DownloadOneZip(id)
    \/ DownloadAllZips

\* the naming rule alone: applied to a name, then to its own result
NamingCall(name) == [pc |-> "fileName", name |-> name, results |-> <<>>]

ApplyNaming ==
    /\ hook = NamingUnit
    /\ Len(exported.results) < 2
    /\ exported' = [exported EXCEPT !.results =
                       Append(@, ExportFileName(IF @ = <<>> THEN exported.name ELSE @[Len(@)]))]
    /\ UNCHANGED <<imageVars, zipVars, ExportFrame>>

\* ------------------------------------- handleFilesAdded, lookup by lookup
\* handleFilesAdded calls with each getImageDimensions promise settling on its
\* own, handleRemoveFile and handleClearAll, and the object URLs the browser
\* holds for the previews.
IngestUnit == "handleFilesAdded"

MaxBatch == 2        \* files given to one handleFilesAdded call

\* the calls made in a behaviour; they may be in flight together
CallNames == {"first", "second"}

\* the files of a call: the k-th file of the call named c
NewFilesOf(c, n) == [k \in 1..n |-> <<c, k>>]

NoItem ==
    [id |-> 0, file |-> <<>>, previewUrl |-> <<>>, status |-> IDLE,
     convertedBlob |-> NoBlob, errorMessage |-> NoMessage]

\* the object the map callback returns once the dimensions are known: no payload
\* and no error message are set
BuildImageFile(id, file) ==
    [id |-> id, file |-> file, previewUrl |-> ObjectUrl(id), status |-> IDLE,
     convertedBlob |-> NoBlob, errorMessage |-> NoMessage]

NewCall(newFiles) ==
    [newFiles |-> newFiles,
     lookups |-> [k \in 1..Len(newFiles) |-> "pending"],
     items |-> [k \in 1..Len(newFiles) |-> NoItem],
     settled |-> "pending"]

NoIngest == [calls |-> <<>>, files |-> <<>>, urls |-> {}, nextId |-> 1]

\* bug: the list is set as soon as one of the promises has resolved
PromiseAllResolves_Any(lookups) == \E k \in 1..Len(lookups) : lookups[k] = "resolved"

\* Promise.all(processedFilesPromises) resolves when every promise has
PromiseAllResolves(lookups) == \A k \in 1..Len(lookups) : lookups[k] = "resolved"

\* setFiles(prev => [...prev, ...newImageFiles])
AppendNewImageFiles(prev, newImageFiles) == prev \o newImageFiles

IngestFrame == <<hook, imageVars, zipVars, grouping, traversal, canvas, exported, nextId, runs>>

\* handleFilesAdded(newFiles) up to its await: every file's lookup is started
IngestCall(c, n) ==
    /\ hook = IngestUnit
    /\ c \notin DOMAIN ingest.calls
    /\ ingest' = [ingest EXCEPT !.calls = (c :> NewCall(NewFilesOf(c, n))) @@ @]
    /\ UNCHANGED IngestFrame

\* getImageDimensions(file) resolves: the map callback takes an id, creates the
\* preview URL and returns the item; if that was the last promise of a call
\* that has not rejected, Promise.all resolves and the items are appended
DimensionsResolve(c, k) ==
    /\ hook = IngestUnit
    /\ c \in DOMAIN ingest.calls
    /\ k \in 1..Len(ingest.calls[c].lookups)
    /\ ingest.calls[c].lookups[k] = "pending"
    /\ LET call == ingest.calls[c]
           item == BuildImageFile(ingest.nextId, call.newFiles[k])
           lookups == [call.lookups EXCEPT ![k] = "resolved"]
           items == [call.items EXCEPT ![k] = item]
           done == call.settled = "pending" /\ PromiseAllResolves(lookups)
       IN  ingest' = [ingest EXCEPT
                         !.calls[c] = [call EXCEPT !.lookups = lookups, !.items = items,
                                                   !.settled = IF done THEN "appended" ELSE @],
                         !.urls = @ \cup {item.previewUrl},
                         !.nextId = @ + 1,
                         !.files = IF done
                                   THEN AppendNewImageFiles(@,
                                            SelectSeq(items, LAMBDA x : x # NoItem))
                                   ELSE @]
    /\ UNCHANGED IngestFrame

\* getImageDimensions(file) rejects: the map callback's promise rejects, and
\* with it Promise.all and the call; setFiles is not reached, the other
\* lookups of the call go on
DimensionsReject(c, k) ==
    /\ hook = IngestUnit
    /\ c \in DOMAIN ingest.calls
    /\ k \in 1..Len(ingest.calls[c].lookups)
    /\ ingest.calls[c].lookups[k] = "pending"
    /\ ingest' = [ingest EXCEPT !.calls[c].lookups[k] = "rejected",
                                !.calls[c].settled = IF @ = "pending" THEN "rejected" ELSE @]
    /\ UNCHANGED IngestFrame

\* handleRemoveFile(id): the target's preview URL is revoked, the item filtered out
RevokeAndRemove(id) ==
    /\ hook = IngestUnit
    /\ \E k \in 1..Len(ingest.files) : ingest.files[k].id = id
    /\ ingest' = [ingest EXCEPT
                     !.urls = @ \ {ingest.files[k].previewUrl :
                                       k \in {j \in 1..Len(ingest.files) : ingest.files[j].id = id}},
                     !.files = RemoveById(@, id)]
    /\ UNCHANGED IngestFrame

\* handleClearAll: every preview URL of the list is revoked, the list emptied
\* (processedCount, reset here too, is 0 throughout this unit)
RevokeAndClear ==
    /\ hook = IngestUnit
    /\ ingest.files # <<>>
    /\ ingest' = [ingest EXCEPT
                     !.urls = @ \ {ingest.files[k].previewUrl : k \in 1..Len(ingest.files)},
                     !.files = <<>>]
    /\ UNCHANGED IngestFrame

IngestNext ==
    \/ \E c \in CallNames, n \in 1..MaxBatch : IngestCall(c, n)
    \/ \E c \in CallNames, k \in 1..MaxBatch : DimensionsResolve(c, k)
    \/ \E c \in CallNames, k \in 1..MaxBatch : DimensionsReject(c, k)
    \/ \E id \in 1..(2 * MaxBatch) : RevokeAndRemove(id)
    \/ RevokeAndClear

HooksIdle ==
    /\ files = <<>>
    /\ isProcessing = FALSE
    /\ processedCount = 0
    /\ pendingAdds = <<>>
    /\ conv = NoFrame
    /\ config = DefaultConfig
    /\ zipTasks = <<>>
    /\ isZipping = FALSE
    /\ scan = <<>>
    /\ zip = NoZipFrame
    /\ nextId = 1
    /\ runs = 0

Init ==
    /\ hook \in {ImageHook, ZipHook}
    /\ HooksIdle
    /\ grouping = NoCall
    /\ traversal = NoScan
    /\ canvas = NoCanvas
    /\ exported = NoExport
    /\ ingest = NoIngest

InitGrouping ==
    /\ hook = GroupingUnit
    /\ HooksIdle
    /\ grouping \in {[NoCall EXCEPT !.pc = "forEach", !.newFiles = input] :
                         input \in DistinctSeqs(ZipFilePool, MaxDrop)}
    /\ traversal = NoScan
    /\ canvas = NoCanvas
    /\ exported = NoExport
    /\ ingest = NoIngest

InitArchiving ==
    /\ hook = ZipHook
    /\ files = <<>>
    /\ isProcessing = FALSE
    /\ processedCount = 0
    /\ pendingAdds = <<>>
    /\ conv = NoFrame
    /\ config = DefaultConfig
    /\ \E input \in DistinctSeqs(ArchiveMembers, MaxDrop) :
           /\ input # <<>>
           /\ zipTasks = NewTasks(GroupFiles(input).folderGroups, 1)
           /\ nextId = Len(GroupFiles(input).folderGroups) + 1
    /\ isZipping = FALSE
    /\ scan = <<>>
    /\ zip = NoZipFrame
    /\ runs = 0
    /\ grouping = NoCall
    /\ traversal = NoScan
    /\ canvas = NoCanvas
    /\ exported = NoExport
    /\ ingest = NoIngest

InitNaming ==
    /\ hook = NamingUnit
    /\ HooksIdle
    /\ grouping = NoCall
    /\ traversal = NoScan
    /\ canvas = NoCanvas
    /\ exported \in {NamingCall(name) : name \in FileNames}
    /\ ingest = NoIngest

InitTransform ==
    /\ hook = TransformUnit
    /\ HooksIdle
    /\ grouping = NoCall
    /\ traversal = NoScan
    /\ canvas \in {[NoCanvas EXCEPT !.pc = "readAsDataURL", !.img = img, !.config = cfg] :
                       img \in Images, cfg \in Configs}
    /\ exported = NoExport
    /\ ingest = NoIngest

InitScan ==
    /\ hook = ScanUnit
    /\ HooksIdle
    /\ grouping = NoCall
    /\ traversal \in {BeginScan(items, pageSize) : items \in DroppedItems, pageSize \in PageSizes}
    /\ canvas = NoCanvas
    /\ exported = NoExport
    /\ ingest = NoIngest

Next == ImageNext \/ ZipNext

Spec == Init /\ [][Next]_vars

SpecGrouping == InitGrouping /\ [][GroupingNext]_vars

SpecScan == InitScan /\ [][ScanNext]_vars

SpecTransform == InitTransform /\ [][TransformNext]_vars

\* the hooks with their download handlers: the handlers write no state of the
\* hooks, so a behaviour is followed up to its downloads
NextExport == (exported = NoExport /\ Next) \/ ExportNext

SpecExport == Init /\ [][NextExport]_vars

SpecArchiving == InitArchiving /\ [][ArchivingNext]_vars

\* the converter with the controls of its view
InitImage == Init /\ hook = ImageHook

NextControls == ImageNext \/ ControlsNext

SpecControls == InitImage /\ [][NextControls]_vars

\* the converter with setConfig called from outside the view
NextSetConfig == ImageNext \/ \E value \in HookConfigs : SetConfig(value)

SpecSetConfig == InitImage /\ [][NextSetConfig]_vars

\* the hooks with their remove and clear functions called during a run, which
\* the views do not do
CallHandleRemoveFile(id) ==
    /\ hook = ImageHook
    /\ isProcessing
    /\ \E k \in 1..Len(files) : files[k].id = id
    /\ files' = RemoveById(files, id)
    /\ UNCHANGED <<hook, zipVars, unitVars, config, isProcessing, processedCount, pendingAdds, conv, nextId, runs>>

CallHandleClearAll ==
    /\ hook = ImageHook
    /\ isProcessing
    /\ files' = <<>>
    /\ processedCount' = 0
    /\ UNCHANGED <<hook, zipVars, unitVars, config, isProcessing, pendingAdds, conv, nextId, runs>>

CallHandleRemoveZipTask(id) ==
    /\ hook = ZipHook
    /\ isZipping
    /\ \E k \in 1..Len(zipTasks) : zipTasks[k].id = id
    /\ zipTasks' = RemoveById(zipTasks, id)
    /\ UNCHANGED <<hook, imageVars, isZipping, scan, zip, unitVars, nextId, runs>>

CallHandleClearZipTasks ==
    /\ hook = ZipHook
    /\ isZipping
    /\ zipTasks' = <<>>
    /\ UNCHANGED <<hook, imageVars, isZipping, scan, zip, unitVars, nextId, runs>>

NextHookCalls ==
    \/ Next
    \/ \E id \in 1..MaxIds : CallHandleRemoveFile(id)
    \/ CallHandleClearAll
    \/ \E id \in 1..MaxIds : CallHandleRemoveZipTask(id)
    \/ CallHandleClearZipTasks

SpecHookCalls == Init /\ [][NextHookCalls]_vars

InitIngest ==
    /\ hook = IngestUnit
    /\ HooksIdle
    /\ grouping = NoCall
    /\ traversal = NoScan
    /\ canvas = NoCanvas
    /\ exported = NoExport
    /\ ingest = NoIngest

SpecIngest == InitIngest /\ [][IngestNext]_vars

\* the browser ends every read, decode and encode with one of its callbacks
FairSpecTransform == SpecTransform /\ WF_vars(TransformNext)

\* the Dropzone from idle: drops arrive at any time, also during a scan and
\* while the parent has it disabled
InitDropzone ==
    /\ hook = ScanUnit
    /\ HooksIdle
    /\ grouping = NoCall
    /\ traversal = NoScan
    /\ canvas = NoCanvas
    /\ exported = NoExport
    /\ ingest = NoIngest

NextDropzone ==
    \/ ScanNext
    \/ \E items \in SingleDrops, pageSize \in PageSizes, disabled \in BOOLEAN :
           HandleDrop(items, pageSize, disabled)

SpecDropzone == InitDropzone /\ [][NextDropzone]_vars

SpecNaming == InitNaming /\ [][ApplyNaming]_vars

\* the settling of the awaited call, which ends if the transform or archiver ends
ConvSettle == (\E blob \in BlobsOf(runs) : ConvResolve(blob)) \/ ConvReject
ZipSettle == (\E blob \in BlobsOf(runs) : ZipResolve(blob)) \/ ZipReject

FairSpec == Spec /\ WF_vars(ConvSettle) /\ WF_vars(ZipSettle)

\* ================================================================ claims
Present(items, id) == \E k \in 1..Len(items) : items[k].id = id

ItemOf(items, id) == items[CHOOSE k \in 1..Len(items) : items[k].id = id]

Ids(items) == {items[k].id : k \in 1..Len(items)}

LegalStatusSteps ==
    { <<IDLE, PROCESSING>>, <<PROCESSING, COMPLETED>>, <<PROCESSING, ERROR>>,
      <<ERROR, PROCESSING>> }

\* the step is made by a run whose loop reaches item id now, not having
\* processed it before in the same run
ReachedIn(frame, id) ==
    /\ frame.pc = "await"
    /\ frame.queue[frame.i].id = id
    /\ \A k \in 1..(frame.i - 1) : frame.queue[k].id # id

StatusStepOk(old, new, frameAfter) ==
    \/ old.status = new.status
    \/ /\ <<old.status, new.status>> \in LegalStatusSteps
       /\ old.status = ERROR => ReachedIn(frameAfter, old.id)

C1_Step ==
    /\ \A id \in Ids(files) \cap Ids(files') :
          StatusStepOk(ItemOf(files, id), ItemOf(files', id), conv')
    /\ \A id \in Ids(files') \ Ids(files) : ItemOf(files', id).status = IDLE
    /\ \A id \in Ids(zipTasks) \cap Ids(zipTasks') :
          StatusStepOk(ItemOf(zipTasks, id), ItemOf(zipTasks', id), zip')
    /\ \A id \in Ids(zipTasks') \ Ids(zipTasks) : ItemOf(zipTasks', id).status = IDLE

\* C1: every status change of an image item or zip task is Idle -> Processing,
\* Processing -> Completed, Processing -> Error, or Error -> Processing made by a
\* later run when its loop reaches the item; items enter the collection Idle and
\* no item returns to Idle.
C1_StatusTransitions == [][C1_Step]_vars

\* an image item that failed in an earlier run is being retried
C1_Witness ==
    /\ hook = ImageHook
    /\ runs = 2
    /\ \E k \in 1..Len(files) :
          files[k].status = PROCESSING /\ files[k].errorMessage = "Failed"

\* the transform or archiver is invoked by this step, and on item id
Invoked(frame, frameAfter, id) ==
    /\ frameAfter.pc = "await"
    /\ frameAfter.queue[frameAfter.i].id = id
    /\ frame.pc # "await" \/ frame.i # frameAfter.i

C2_Step ==
    /\ \A id \in Ids(files) \cap Ids(files') :
          ItemOf(files, id).status = COMPLETED =>
             /\ ItemOf(files', id) = ItemOf(files, id)
             /\ ~Invoked(conv, conv', id)
    /\ \A id \in Ids(zipTasks) \cap Ids(zipTasks') :
          ItemOf(zipTasks, id).status = COMPLETED =>
             /\ ItemOf(zipTasks', id) = ItemOf(zipTasks, id)
             /\ ~Invoked(zip, zip', id)

\* C2: a Completed item is left identical (status, payload, size) by every later
\* step, and no run invokes the transform or the archiver on it again.
C2_CompletedIsSticky == [][C2_Step]_vars

\* a second run has ended and an item completed by the first run is still there
C2_Witness ==
    /\ runs = 2
    /\ \/ conv.pc = "returned" /\ \E k \in 1..Len(files) :
             files[k].status = COMPLETED /\ files[k].convertedBlob.gen = 1
       \/ zip.pc = "returned" /\ \E k \in 1..Len(zipTasks) :
             zipTasks[k].status = COMPLETED /\ zipTasks[k].zipBlob.gen = 1

RunOutcomeOk(frame, items) ==
    /\ frame.pc # "thrown"
    /\ frame.pc = "returned" =>
          /\ Len(frame.outcomes) = Len(frame.queue)
          /\ \A k \in 1..Len(frame.queue) :
                Present(items, frame.queue[k].id) =>
                   ItemOf(items, frame.queue[k].id).status =
                      (IF frame.outcomes[k] = "ok" THEN COMPLETED ELSE ERROR)

\* C3: a run never throws; when it has ended, every snapshot item whose transform
\* (or archive build) failed is Error and every other snapshot item is Completed,
\* the items after a failing one included.
C3_ErrorIsolation == RunOutcomeOk(conv, files) /\ RunOutcomeOk(zip, zipTasks)

FailThenOk(frame, items) ==
    /\ frame.pc = "returned"
    /\ Len(frame.queue) = 2
    /\ frame.outcomes = <<"fail", "ok">>
    /\ Present(items, frame.queue[1].id) /\ Present(items, frame.queue[2].id)

\* a run has ended whose first item failed and whose second item succeeded
C3_Witness == FailThenOk(conv, files)

Sequential(frame, items) ==
    /\ Cardinality({k \in 1..Len(items) : items[k].status = PROCESSING}) <= 1
    /\ \A k \in 1..Len(items) :
          items[k].status = PROCESSING =>
             /\ frame.pc = "await"
             /\ frame.queue[frame.i].id = items[k].id
    /\ frame.pc = "await" =>
          /\ ItemOf(items, frame.queue[frame.i].id).status = PROCESSING
          /\ \A j \in 1..(frame.i - 1) :
                ItemOf(items, frame.queue[j].id).status \in {COMPLETED, ERROR}
          /\ \A j \in (frame.i + 1)..Len(frame.queue) :
                ItemOf(items, frame.queue[j].id).status \in {IDLE, ERROR}

\* C4: at most one item is Processing at any time; it is the item the run's loop
\* stands at, every snapshot item before it is Completed or Error and every
\* snapshot item after it has not entered Processing in this run.
C4_Sequential == Sequential(conv, files) /\ Sequential(zip, zipTasks)

\* the second task of a snapshot is being archived after the first was settled
C4_Witness ==
    /\ zip.pc = "await"
    /\ zip.i = 2
    /\ ItemOf(zipTasks, zip.queue[1].id).status = ERROR

OutputXorError(f) ==
    /\ f.status \in {IDLE, PROCESSING} =>
          /\ f.convertedBlob = NoBlob
          /\ f.convertedSize = NoSize
          /\ f.errorMessage = NoMessage
    /\ f.status = COMPLETED =>
          /\ f.convertedBlob # NoBlob
          /\ f.convertedSize # NoSize
          /\ f.errorMessage = NoMessage
    /\ f.status = ERROR =>
          /\ f.convertedBlob = NoBlob
          /\ f.convertedSize = NoSize
          /\ f.errorMessage # NoMessage

\* C5: an image item carries neither output nor errorMessage while Idle or
\* Processing, output and no errorMessage once Completed, errorMessage and no
\* output once Error; a retried item carries no errorMessage.
C5_OutputXorError == \A k \in 1..Len(files) : OutputXorError(files[k])

C6_Inv ==
    /\ \A k \in 1..Len(files) :
          /\ files[k].convertedBlob # NoBlob <=> files[k].status = COMPLETED
          /\ files[k].convertedSize =
                (IF files[k].convertedBlob = NoBlob THEN NoSize
                 ELSE files[k].convertedBlob.size)
    /\ \A k \in 1..Len(zipTasks) :
          /\ zipTasks[k].zipBlob # NoBlob <=> zipTasks[k].status = COMPLETED
          /\ zipTasks[k].zipSize =
                (IF zipTasks[k].zipBlob = NoBlob THEN NoSize
                 ELSE zipTasks[k].zipBlob.size)

C6_Step ==
    /\ \A id \in Ids(files) \cap Ids(files') :
          ItemOf(files, id).convertedBlob # NoBlob =>
             ItemOf(files', id).convertedBlob = ItemOf(files, id).convertedBlob
    /\ \A id \in Ids(zipTasks) \cap Ids(zipTasks') :
          ItemOf(zipTasks, id).zipBlob # NoBlob =>
             ItemOf(zipTasks', id).zipBlob = ItemOf(zipTasks, id).zipBlob

\* C6: an item's payload is present iff the item is Completed, the recorded size
\* is the payload's size (and absent with it), and a payload once set is never
\* replaced, for image items and for zip tasks.
C6_PayloadIffCompleted == []C6_Inv /\ [][C6_Step]_vars

\* a completed item records the size of a 2-byte payload
C6_Witness ==
    \E k \in 1..Len(files) :
       /\ files[k].status = COMPLETED
       /\ files[k].convertedBlob.size = 2
       /\ files[k].convertedSize = 2

C7_Step ==
    /\ (hook = ImageHook /\ runs' # runs) => processedCount' = 0
    /\ (conv.pc = "await" /\ conv'.pc = "returned") =>
          processedCount' = Len(conv'.outcomes)

\* C7: processedCount is reset to 0 when a run starts, and when a run ends it
\* equals the number of items the run processed, failed ones included.
C7_ProcessedCount == [][C7_Step]_vars

C8_Step ==
    /\ runs' # runs => (IF hook = ImageHook THEN isProcessing' ELSE isZipping')
    /\ (isProcessing /\ ~isProcessing') =>
          \A k \in 1..Len(files') : files'[k].status # PROCESSING
    /\ (isZipping /\ ~isZipping') =>
          \A k \in 1..Len(zipTasks') : zipTasks'[k].status # PROCESSING

\* C8: if every transform and archive call settles, a started run ends: the
\* running flag is true once the run has started, is eventually false again on
\* every path, and when it is cleared no item is Processing.
C8_RunTerminates ==
    /\ isProcessing ~> ~isProcessing
    /\ isZipping ~> ~isZipping
    /\ [][C8_Step]_vars

\* a run in which an item failed has ended and cleared the flag
C8_Witness ==
    /\ conv.pc = "returned"
    /\ ~isProcessing
    /\ \E k \in 1..Len(conv.outcomes) : conv.outcomes[k] = "fail"

\* ---- handleFoldersAdded, under SpecGrouping
CountIn(q, f) == Cardinality({k \in 1..Len(q) : q[k] = f})

RECURSIVE MembersOf(_)
MembersOf(tasks) ==
    IF tasks = <<>> THEN <<>> ELSE Head(tasks).files \o MembersOf(Tail(tasks))

GroupingEnded == grouping.pc \in {"done", "thrown"}

\* C9: when handleFoldersAdded has ended, every input file is in exactly one
\* group or in the ungrouped bucket, and the group sizes plus the size of the
\* ungrouped bucket add up to the number of input files.
C9_GroupingIsPartition ==
    GroupingEnded =>
       /\ \A k \in 1..Len(grouping.newFiles) :
             CountIn(MembersOf(grouping.newTasks) \o grouping.acc.rootFiles,
                     grouping.newFiles[k]) = 1
       /\ Len(MembersOf(grouping.newTasks)) + Len(grouping.acc.rootFiles)
             = Len(grouping.newFiles)

PositionIn(q, f) == CHOOSE k \in 1..Len(q) : q[k] = f

InInputOrder(members, input) ==
    \A a, b \in 1..Len(members) :
       a < b => PositionIn(input, members[a]) < PositionIn(input, members[b])

\* C10: when handleFoldersAdded has ended, a file whose path has more than one
\* segment is in the group named by its first segment, a file with a
\* single-segment or empty path is ungrouped, and the members of each group are
\* in input order.
C10_GroupByFirstSegment ==
    GroupingEnded =>
       /\ \A k \in 1..Len(grouping.newFiles) :
             LET f == grouping.newFiles[k]
                 segments == Split(f.path)
             IN  IF Len(segments) > 1
                 THEN \E t \in 1..Len(grouping.newTasks) :
                         /\ grouping.newTasks[t].folderName = segments[1]
                         /\ CountIn(grouping.newTasks[t].files, f) = 1
                 ELSE /\ CountIn(grouping.acc.rootFiles, f) = 1
                      /\ CountIn(MembersOf(grouping.newTasks), f) = 0
       /\ \A t \in 1..Len(grouping.newTasks) :
             InInputOrder(grouping.newTasks[t].files, grouping.newFiles)

\* ---------------------------------------------------------------- C11, C12
\* the addresses of the leaf files below a list of entries
RECURSIVE LeafAddresses(_, _)
LeafAddresses(items, prefix) ==
    UNION {IF items[k].isFile THEN {prefix \o <<k>>}
           ELSE LeafAddresses(items[k].kids, prefix \o <<k>>) : k \in 1..Len(items)}

\* the names from the drop root down to an address, joined with '/'
RECURSIVE ChainPath(_, _)
ChainPath(items, addr) ==
    IF Len(addr) = 1 THEN <<items[addr[1]].name>>
    ELSE <<items[addr[1]].name, Slash>> \o ChainPath(items[addr[1]].kids, Tail(addr))

IsPrefix(p, q) == Len(p) <= Len(q) /\ SubSeq(q, 1, Len(p)) = p

ScanEnded == hook = ScanUnit /\ traversal.pc \in {"delivered", "empty", "failed"}

\* the leaf at addr is in the scan's result exactly once, under its chain path
DeliveredOnce(addr) ==
    /\ Cardinality({k \in 1..Len(traversal.allFiles) : traversal.allFiles[k].fid = addr}) = 1
    /\ \A k \in 1..Len(traversal.allFiles) :
           traversal.allFiles[k].fid = addr
               => traversal.allFiles[k].path = ChainPath(traversal.items, addr)

\* C11: when every read of a scan succeeds, the scan returns exactly the leaf
\* files of the dropped trees, each once, each under the '/'-joined chain of
\* directory names from the drop root followed by its own name, however the
\* listings were split into batches; an empty directory adds nothing.
C11_ScanDeliversEveryLeaf ==
    (ScanEnded /\ traversal.faults = {}) =>
        /\ traversal.pc # "failed"
        /\ Len(traversal.allFiles) = Cardinality(LeafAddresses(traversal.items, <<>>))
        /\ \A addr \in LeafAddresses(traversal.items, <<>>) : DeliveredOnce(addr)

\* a fault-free scan over a directory listed in several batches, an empty
\* directory, and a file two levels down
C11_Witness ==
    /\ ScanEnded
    /\ traversal.faults = {}
    /\ \E addr \in DOMAIN traversal.calls :
           Len(traversal.calls[addr].entries) > traversal.pageSize
    /\ \E addr \in DOMAIN traversal.calls :
           /\ EntryAt(traversal.items, addr).isDirectory
           /\ EntryAt(traversal.items, addr).kids = <<>>
    /\ \E k \in 1..Len(traversal.allFiles) : Len(traversal.allFiles[k].path) = 5

\* C12: a scan in which one read failed still ends normally and delivers every
\* leaf file outside the file or directory that failed.
C12_FaultSkipsOnlyItsSubtree ==
    (ScanEnded /\ traversal.faults # {}) =>
        /\ traversal.pc # "failed"
        /\ \A addr \in LeafAddresses(traversal.items, <<>>) :
               (\A f \in traversal.faults : ~IsPrefix(f, addr)) => DeliveredOnce(addr)
        /\ traversal.allFiles # <<>> => traversal.handedOff = <<traversal.allFiles>>

\* ---------------------------------------------------------------- C13, C14
Max(a, b) == IF a >= b THEN a ELSE b

\* Math.round(n * percent / 100)
RoundScaled(n, percent) == (2 * n * percent + 100) \div 200

CanvasSized == hook = TransformUnit /\ canvas.pc \in {"context", "filled", "drawn", "resolved"}

\* C13: the output surface is max(1, max(1, round(nativeWidth * scale)) - trimRight)
\* pixels wide and max(1, round(nativeHeight * scale)) pixels high.
C13_OutputDimensions ==
    CanvasSized =>
        /\ canvas.width = Max(1, Max(1, RoundScaled(canvas.img.width, canvas.config.scale))
                                     - canvas.config.trimRight)
        /\ canvas.height = Max(1, RoundScaled(canvas.img.height, canvas.config.scale))

PixelsOf(c) == (1..c.width) \X (1..c.height)

C14_Inv ==
    (hook = TransformUnit /\ canvas.pc = "resolved") =>
        \A p \in DOMAIN canvas.blob.pixels :
            (p \in DOMAIN canvas.img.pixels /\ canvas.img.pixels[p] = Clear)
                => canvas.blob.pixels[p] = canvas.config.fillColor

C14_Step ==
    /\ canvas'.pc = "drawn" =>
           /\ canvas.pc = "filled"
           /\ \A p \in PixelsOf(canvas) : canvas.surface[p] = canvas.config.fillColor
    /\ canvas.pc \in {"drawn", "resolved"} => canvas'.surface = canvas.surface

\* C14: the whole surface holds the matte colour when the source is composited,
\* nothing paints the surface after that, and every output pixel whose source
\* pixel is fully transparent has the matte colour.
C14_MatteBeforeSource == []C14_Inv /\ [][C14_Step]_vars

\* an encoded output of an image with a transparent and an opaque pixel
C14_Witness ==
    /\ hook = TransformUnit
    /\ canvas.pc = "resolved"
    /\ \E p, q \in DOMAIN canvas.img.pixels :
           /\ canvas.img.pixels[p] = Clear
           /\ canvas.img.pixels[q] = Ink
           /\ canvas.blob.pixels[p] = canvas.config.fillColor
           /\ canvas.blob.pixels[q] = Ink

\* ---------------------------------------------------------------- C15
\* the spellings of an image extension among the parts
ImageExtensionSpellings == {"png", "PNG", "jpg", "Jpeg"}

\* C15: the entry name is the source name without one trailing .png, .jpg or
\* .jpeg (in any letter case, only at the end) and with .jpg appended; a name
\* without such an extension is kept whole and gets .jpg; the rule applied to
\* its own result returns that result.
C15_EntryNameRule ==
    hook = NamingUnit =>
        LET name == exported.name
            results == exported.results
            stripped == IF Len(name) >= 2 /\ name[Len(name)] \in ImageExtensionSpellings
                        THEN SubSeq(name, 1, Len(name) - 1) ELSE name
        IN  /\ Len(results) >= 1 => results[1] = stripped \o <<"jpg">>
            /\ Len(results) = 2 => results[2] = results[1]

\* the rule applied twice to a name with an upper-case extension
C15_Witness ==
    /\ hook = NamingUnit
    /\ exported.name = <<"a", "PNG">>
    /\ exported.results = <<<<"a", "jpg">>, <<"a", "jpg">>>>

\* ---------------------------------------------------------------- C16
ArchiveMade == hook = ImageHook /\ exported.pc = "downloadZip" /\ exported.downloads # <<>>

\* C16: the entry names of distinct Completed items differ, and the archive
\* holds one entry for each Completed item.
C16_NoEntryCollision ==
    ArchiveMade =>
        /\ \A a, b \in 1..Len(exported.named) :
               a # b => exported.named[a].fileName # exported.named[b].fileName
        /\ Len(exported.archive) = Len(CompletedFiles(files))

\* ---------------------------------------------------------------- C17
ExportMade == exported.pc \in {"downloadZip", "downloadOneZip", "downloadAllZips"}

C17_Step ==
    exported' # exported =>
        /\ UNCHANGED <<imageVars, zipVars>>
        /\ exported'.alerts <= 1
        /\ exported'.alerts = 1 => exported'.downloads = <<>>

\* C17: a download leaves the collection, every status, payload, size and
\* error detail, processedCount and the running flag as they were, whether it
\* hands over an archive or fails; a failure raises one alert, hands over
\* nothing, and the download can be called again.
C17_ExportChangesNothing ==
    /\ [][C17_Step]_vars
    /\ [](ExportMade => ENABLED ExportNext)

\* a download whose archive could not be generated, over a collection with Completed items
C17_Witness ==
    /\ hook = ImageHook
    /\ exported.pc = "downloadZip"
    /\ exported.alerts = 1
    /\ Len(exported.named) = 2
    /\ \A k \in 1..Len(files) : files[k].status = COMPLETED /\ files[k].convertedBlob # NoBlob
    /\ processedCount = 2

\* ---------------------------------------------------------------- C18
\* the payloads an archive or a list of downloads holds
PayloadsIn(entries, field) == {entries[k][field] : k \in 1..Len(entries)}

\* C18: a download holds exactly the payloads of the items that are Completed
\* at the call; when no item is Completed, downloadZip makes no archive and
\* hands over nothing.
C18_ExportsExactlyCompleted ==
    /\ (hook = ImageHook /\ exported.pc = "downloadZip") =>
           /\ exported.downloads # <<>> =>
                  /\ Len(exported.archive) = Len(CompletedFiles(files))
                  /\ PayloadsIn(exported.archive, "data")
                         = {files[k].convertedBlob : k \in {j \in 1..Len(files) : files[j].status = COMPLETED}}
           /\ (\A k \in 1..Len(files) : files[k].status # COMPLETED) =>
                  exported.archive = <<>> /\ exported.downloads = <<>>
    /\ (hook = ZipHook /\ exported.pc = "downloadAllZips") =>
           exported.downloads =
               [k \in 1..Len(SelectSeq(zipTasks, LAMBDA t : t.status = COMPLETED)) |->
                   [name |-> SelectSeq(zipTasks, LAMBDA t : t.status = COMPLETED)[k].folderName,
                    content |-> SelectSeq(zipTasks, LAMBDA t : t.status = COMPLETED)[k].zipBlob]]

\* ---------------------------------------------------------------- C19
C19_Inv ==
    \A k \in 1..Len(zipTasks) :
        /\ zipTasks[k].progress \in 0..100
        /\ zipTasks[k].status = COMPLETED => zipTasks[k].progress = 100

C19_Step ==
    \A id \in Ids(zipTasks) \cap Ids(zipTasks') :
        (ItemOf(zipTasks, id).status # PROCESSING /\ ItemOf(zipTasks', id).status = PROCESSING)
            => ItemOf(zipTasks', id).progress = 0

\* C19: the progress of a zip task is always within 0..100, a Completed task
\* has progress exactly 100, and a task that enters Processing, for the first
\* time or on a retry, has its progress reset to 0.
C19_ProgressBounds == []C19_Inv /\ [][C19_Step]_vars

\* a second run has put a task back to Processing at 0 next to a Completed task
C19_Witness ==
    /\ hook = ZipHook
    /\ runs = 2
    /\ \E a, b \in 1..Len(zipTasks) :
           /\ zipTasks[a].status = COMPLETED /\ zipTasks[a].progress = 100
           /\ zipTasks[b].status = PROCESSING /\ zipTasks[b].progress = 0

\* ---------------------------------------------------------------- C20
C20_Step ==
    \A id \in Ids(zipTasks) \cap Ids(zipTasks') :
        (ItemOf(zipTasks, id).status = PROCESSING
         /\ ItemOf(zipTasks', id).status \in {PROCESSING, COMPLETED})
            => ItemOf(zipTasks', id).progress >= ItemOf(zipTasks, id).progress

\* C20: with an archiver whose reported percentages never go down, the
\* progress of a task never goes down from its entering Processing to its
\* becoming Completed, whatever the number of callbacks in between.
C20_ProgressMonotone == [][C20_Step]_vars

\* a task in Processing whose archiver has reported half of the work
C20_Witness ==
    /\ hook = ZipHook
    /\ zip.pc = "await"
    /\ zip.percent = 50
    /\ ItemOf(zipTasks, zip.queue[zip.i].id).status = PROCESSING
    /\ ItemOf(zipTasks, zip.queue[zip.i].id).progress = 50

\* ---------------------------------------------------------------- C21
\* the sizes of the first n members, added up from the last one
RECURSIVE SizeOfFirst(_, _)
SizeOfFirst(members, n) == IF n = 0 THEN 0 ELSE members[n].size + SizeOfFirst(members, n - 1)

C21_Inv ==
    \A k \in 1..Len(zipTasks) :
        zipTasks[k].totalSize = SizeOfFirst(zipTasks[k].files, Len(zipTasks[k].files))

C21_Step ==
    \A id \in Ids(zipTasks) \cap Ids(zipTasks') :
        /\ ItemOf(zipTasks', id).folderName = ItemOf(zipTasks, id).folderName
        /\ ItemOf(zipTasks', id).files = ItemOf(zipTasks, id).files
        /\ ItemOf(zipTasks', id).totalSize = ItemOf(zipTasks, id).totalSize

\* C21: the folderName, member files and totalSize a zip task is created with
\* stay with its id through every later run, progress update, ingest and
\* removal of another task, and totalSize is the sum of the members' sizes.
C21_TaskIdentityFrozen == []C21_Inv /\ [][C21_Step]_vars

\* a two-member task archived in a run, with a task of a later ingest beside it
C21_Witness ==
    /\ hook = ZipHook
    /\ Len(zipTasks) = 2
    /\ zipTasks[1].status = COMPLETED
    /\ Len(zipTasks[1].files) = 2
    /\ zipTasks[1].totalSize = 3
    /\ zipTasks[2].id > zipTasks[1].id

\* ---------------------------------------------------------------- C23
\* C23: no two tasks of the collection have the same folderName, so no two
\* downloads are named alike.
C23_OneTaskPerGroup ==
    \A a, b \in 1..Len(zipTasks) :
        a # b => zipTasks[a].folderName # zipTasks[b].folderName

\* ---------------------------------------------------------------- C22
\* a path without its first segment and the '/' after it
RECURSIVE AfterFirstSlash(_)
AfterFirstSlash(path) ==
    IF path = <<>> THEN <<>>
    ELSE IF Head(path) = Slash THEN Tail(path)
    ELSE AfterFirstSlash(Tail(path))

\* C22: the archive of the task being zipped received one entry per member, in
\* member order, each under the member's path without the leading folder
\* segment, or under the member's bare name when nothing is left of the path.
C22_EntryPaths ==
    (hook = ZipHook /\ zip.pc = "await" /\ Present(zipTasks, zip.queue[zip.i].id)) =>
        LET members == ItemOf(zipTasks, zip.queue[zip.i].id).files
        IN  /\ Len(zip.entries) = Len(members)
            /\ \A k \in 1..Len(members) :
                   /\ zip.entries[k].file = members[k].fid
                   /\ zip.entries[k].name =
                          IF AfterFirstSlash(members[k].path) = <<>> THEN <<members[k].name>>
                          ELSE AfterFirstSlash(members[k].path)

\* a task with a nested member and a member whose path ends after the folder
C22_Witness ==
    /\ hook = ZipHook
    /\ zip.pc = "await"
    /\ \E a, b \in 1..Len(zip.entries) :
           /\ a < b
           /\ zip.entries[a].name = <<"s", Slash, "y">>
           /\ zip.entries[b].name = <<"z">>

\* ---------------------------------------------------------------- C24
C24_Inv ==
    /\ config.quality >= 10 /\ config.quality <= 100
    /\ config.scale >= 1 /\ config.scale <= 100
    /\ config.trimRight \in 0..50

C24_Step == config' # config => ~isProcessing /\ ~isProcessing'

\* C24: through the controls of the view, quality stays within 0.1..1.0 (10..100
\* percent), scale within 0.01..1.0 (1..100 percent) and trimRight within 0..50,
\* starting from 0.9, 1 and 0, and no edit happens while a run is active.
C24_ConfigRanges ==
    /\ DefaultConfig = [quality |-> 90, fillColor |-> "#FFFFFF", scale |-> 100, trimRight |-> 0]
    /\ []C24_Inv
    /\ [][C24_Step]_vars

\* every slider at the end opposite to its start, after a run
C24_Witness ==
    /\ hook = ImageHook
    /\ runs > 0
    /\ ~isProcessing
    /\ config.quality = 10
    /\ config.scale = 1
    /\ config.trimRight = 50

\* ---------------------------------------------------------------- C25
C25_Inv ==
    conv.pc = "await" =>
        /\ Len(conv.used) = conv.i
        /\ \A k \in 1..Len(conv.used) : conv.used[k] = conv.config

C25_Step ==
    /\ (conv.pc # "await" /\ conv'.pc = "await") => conv'.config = config
    /\ (conv.pc = "await" /\ conv'.pc = "await") => conv'.config = conv.config

\* C25: every item of one startConversion run is transformed with the config in
\* effect when the run started, also when setConfig is called during the run.
C25_ConfigCaptured == []C25_Inv /\ [][C25_Step]_vars

\* the second item of a run is dispatched after setConfig replaced the config
C25_Witness ==
    /\ conv.pc = "await"
    /\ conv.i = 2
    /\ config # conv.config
    /\ conv.used = <<conv.config, conv.config>>

\* ---------------------------------------------------------------- C26
Processing(items) == {k \in 1..Len(items) : items[k].status = PROCESSING}

C26_Inv ==
    /\ isProcessing <=> conv.pc = "await"
    /\ isZipping <=> zip.pc = "await"
    /\ Cardinality(Processing(files)) <= 1
    /\ Cardinality(Processing(zipTasks)) <= 1
    /\ \A k \in Processing(files) :
          conv.pc = "await" /\ conv.queue[conv.i].id = files[k].id
    /\ \A k \in Processing(zipTasks) :
          zip.pc = "await" /\ zip.queue[zip.i].id = zipTasks[k].id

C26_Step ==
    /\ (hook = ImageHook /\ runs' = runs + 1) =>
          /\ ~isProcessing
          /\ conv.pc # "await"
          /\ files # <<>>
          /\ \E k \in 1..Len(files) : files[k].status # COMPLETED
          /\ conv'.queue # <<>>
          /\ conv'.pc = "await"
    /\ (hook = ZipHook /\ runs' = runs + 1) =>
          /\ ~isZipping
          /\ zip.pc # "await"
          /\ zipTasks # <<>>
          /\ \E k \in 1..Len(zipTasks) : zipTasks[k].status # COMPLETED
          /\ zip'.queue # <<>>
          /\ zip'.pc = "await"
    /\ (conv'.queue # conv.queue \/ zip'.queue # zip.queue) => runs' = runs + 1

\* C26: through the UI a run starts only with the running flag false, a
\* non-empty collection and an item that is not Completed; its work list is
\* non-empty, and at most one run per kind is active, being the only writer
\* of the one item in Processing.
C26_NoOverlap == []C26_Inv /\ [][C26_Step]_vars

\* a second run has been started, after the first one returned
C26_Witness ==
    /\ runs = 2
    /\ conv.pc = "await"
    /\ isProcessing
    /\ \E k \in 1..Len(files) : files[k].status = COMPLETED

\* ---------------------------------------------------------------- C27
C27_Inv ==
    /\ \A id \in Ids(files) \cup Ids(zipTasks) : id < nextId
    /\ Cardinality(Ids(files)) = Len(files)
    /\ Cardinality(Ids(zipTasks)) = Len(zipTasks)

C27_Step ==
    \* an id enters only through an add, and is one that was never used
    /\ \A id \in Ids(files') \ Ids(files) :
          id >= nextId /\ pendingAdds # <<>> /\ pendingAdds' = Tail(pendingAdds)
    /\ \A id \in Ids(zipTasks') \ Ids(zipTasks) :
          id >= nextId /\ scan # <<>> /\ scan' = <<>>
    \* an id leaves only through remove or clear, which are no step of a run
    /\ (Ids(files) \ Ids(files') # {}) => conv' = conv
    /\ (Ids(zipTasks) \ Ids(zipTasks') # {}) => zip' = zip
    /\ nextId' >= nextId

\* C27: an item removed or cleared while a run is in progress is never put
\* back by the run's status, progress or completion updates; membership of
\* both collections changes only through add, remove and clear.
C27_NoReinsertion == []C27_Inv /\ [][C27_Step]_vars

\* the list was emptied during a run whose first item then completed and whose
\* second item was dispatched
C27_Witness ==
    /\ conv.pc = "await"
    /\ conv.i = 2
    /\ conv.outcomes = <<"ok">>
    /\ processedCount = 1
    /\ files = <<>>

\* ---------------------------------------------------------------- C28
\* the ids of a run's snapshot
Snapshot(frame) == {frame.queue[k].id : k \in 1..Len(frame.queue)}

\* items present before and after the step that are outside the snapshot of
\* the active run are left as they are
Untouched(frame, items, itemsAfter) ==
    frame.pc = "await" =>
        \A id \in (Ids(items) \cap Ids(itemsAfter)) \ Snapshot(frame) :
            ItemOf(itemsAfter, id) = ItemOf(items, id)

\* a run that starts takes every item that is not Completed, in list order
TakesAll(items, frameAfter) ==
    LET todo == SelectSeq(items, LAMBDA x : x.status # COMPLETED)
    IN  /\ Len(frameAfter.queue) = Len(todo)
        /\ \A k \in 1..Len(todo) : frameAfter.queue[k].id = todo[k].id

C28_Inv ==
    /\ conv.pc = "await" =>
          \A k \in 1..Len(files) :
              files[k].id \notin Snapshot(conv) => files[k].status \in {IDLE, COMPLETED}
    /\ zip.pc = "await" =>
          \A k \in 1..Len(zipTasks) :
              zipTasks[k].id \notin Snapshot(zip) => zipTasks[k].status \in {IDLE, COMPLETED}

C28_Step ==
    /\ Untouched(conv, files, files')
    /\ Untouched(zip, zipTasks, zipTasks')
    /\ (conv.pc = "await" /\ conv'.pc = "await") => Snapshot(conv') = Snapshot(conv)
    /\ (zip.pc = "await" /\ zip'.pc = "await") => Snapshot(zip') = Snapshot(zip)
    /\ (hook = ImageHook /\ runs' = runs + 1) => TakesAll(files, conv')
    /\ (hook = ZipHook /\ runs' = runs + 1) => TakesAll(zipTasks, zip')

\* C28: a run works on the snapshot taken at its start; an item appended while
\* the run is active is not touched by it, is still Idle when the run ends,
\* and is in the snapshot of the next run.
C28_Snapshot == []C28_Inv /\ [][C28_Step]_vars

\* the first run took the first item alone and is on it while a second item,
\* appended since, waits as Idle
C28_Witness ==
    /\ hook = ImageHook
    /\ runs = 1
    /\ conv.pc = "await"
    /\ Snapshot(conv) = {1}
    /\ Present(files, 2)
    /\ ItemOf(files, 2).status = IDLE
    /\ pendingAdds = <<>>

\* ---------------------------------------------------------------- C29
\* the addresses of all entries, files and directories, below a list of entries
RECURSIVE EntryAddresses(_, _)
EntryAddresses(items, prefix) ==
    UNION {IF items[k].isFile THEN {prefix \o <<k>>}
           ELSE {prefix \o <<k>>} \cup EntryAddresses(items[k].kids, prefix \o <<k>>) :
           k \in 1..Len(items)}

\* every branch of the drop has been walked and has resolved
AllBranchesResolved ==
    \A addr \in EntryAddresses(traversal.items, <<>>) :
        /\ addr \in DOMAIN traversal.calls
        /\ traversal.calls[addr].settled

C29_Inv ==
    hook = ScanUnit =>
        /\ Len(traversal.handedOff) <= 1
        /\ traversal.pc \in {"scanning", "empty", "failed"} => traversal.handedOff = <<>>
        /\ traversal.pc = "empty" => traversal.allFiles = <<>>
        /\ traversal.handedOff # <<>> =>
              /\ traversal.pc = "delivered"
              /\ AllBranchesResolved
              /\ traversal.handedOff[1] = traversal.allFiles
              /\ traversal.allFiles # <<>>
              /\ \A addr \in LeafAddresses(traversal.items, <<>>) \ traversal.faults :
                     DeliveredOnce(addr)

C29_Step ==
    traversal'.handedOff # traversal.handedOff =>
        traversal.handedOff = <<>> /\ traversal.pc = "scanning"

\* C29: for one drop, onFilesAdded is called at most once, only after every
\* branch of every dropped entry has resolved, and with the complete list of
\* files; it is not called when the scan finds no file or fails.
C29_HandOffAfterScan == []C29_Inv /\ [][C29_Step]_vars

\* two dropped entries, one of them a directory with a directory inside, have
\* been walked and their files handed off together
C29_Witness ==
    /\ hook = ScanUnit
    /\ traversal.pc = "delivered"
    /\ Len(traversal.items) = 2
    /\ Len(traversal.handedOff) = 1
    /\ \E k \in 1..Len(traversal.handedOff[1]) : Len(traversal.handedOff[1][k].fid) = 3
    /\ \E k \in 1..Len(traversal.handedOff[1]) : traversal.handedOff[1][k].fid[1] = 2

\* ---------------------------------------------------------------- C30
\* a file whose path has no folder segment
Loose(file) == Len(Split(file.path)) <= 1

LooseIn(input) == {k \in 1..Len(input) : Loose(input[k])}

\* C30: a handleFoldersAdded call whose files are all loose creates no task;
\* in a call with loose and folder files the loose files are in no task and
\* every folder file is in the task of its folder.
C30_LooseFilesDiscarded ==
    (hook = GroupingUnit /\ GroupingEnded) =>
        LET input == grouping.newFiles
        IN  /\ LooseIn(input) = DOMAIN input =>
                  grouping.pc = "done" /\ grouping.newTasks = <<>>
            /\ \A k \in LooseIn(input) :
                  CountIn(MembersOf(grouping.newTasks), input[k]) = 0
            /\ (LooseIn(input) # {} /\ LooseIn(input) # DOMAIN input) =>
                  \A k \in DOMAIN input \ LooseIn(input) :
                      \E t \in 1..Len(grouping.newTasks) :
                          /\ grouping.newTasks[t].folderName = Split(input[k].path)[1]
                          /\ CountIn(grouping.newTasks[t].files, input[k]) = 1

\* ---------------------------------------------------------------- C31
\* no handleFilesAdded call has a lookup outstanding
IngestQuiet ==
    \A c \in DOMAIN ingest.calls :
        \A k \in 1..Len(ingest.calls[c].lookups) : ingest.calls[c].lookups[k] # "pending"

\* the preview URLs of the items of the collection
OwnedUrls == {ingest.files[k].previewUrl : k \in 1..Len(ingest.files)}

\* C31: once the handleFilesAdded, handleRemoveFile and handleClearAll calls
\* made so far are through, the preview URLs created and not yet revoked are
\* exactly the previewUrl values of the items in the collection.
C31_PreviewUrlsOwned ==
    (hook = IngestUnit /\ IngestQuiet) => ingest.urls = OwnedUrls

\* ---------------------------------------------------------------- C32
TransformErrors ==
    {"Failed to read file", "Failed to load image",
     "Canvas context could not be created", "Canvas conversion failed"}

TransformSettled == canvas.pc \in {"resolved", "rejected"}

C32_Inv ==
    hook = TransformUnit =>
        /\ canvas.pc = "resolved" => canvas.blob # <<>> /\ canvas.error = "none"
        /\ canvas.pc = "rejected" => canvas.blob = <<>> /\ canvas.error \in TransformErrors
        /\ ~TransformSettled => canvas.blob = <<>> /\ canvas.error = "none"

C32_Step ==
    hook = TransformUnit =>
        \* a settled call stays as it settled
        /\ TransformSettled => canvas' = canvas
        \* the payload comes from the encoder, after read, decode and context
        /\ canvas'.pc = "resolved" => canvas.pc = "drawn"
        \* each failure is reported by the step that failed
        /\ (canvas'.pc = "rejected" /\ canvas.pc = "readAsDataURL")
              => canvas'.error = "Failed to read file"
        /\ (canvas'.pc = "rejected" /\ canvas.pc = "decode")
              => canvas'.error \in {"Failed to load image", "Canvas context could not be created"}
        /\ (canvas'.pc = "rejected" /\ canvas.pc = "drawn")
              => canvas'.error = "Canvas conversion failed"
        /\ canvas'.pc = "rejected" => canvas.pc \in {"readAsDataURL", "decode", "drawn"}
        \* the inputs and the hooks' state are left alone
        /\ canvas'.img = canvas.img
        /\ canvas'.config = canvas.config
        /\ UNCHANGED <<files, isProcessing, processedCount, conv, config, zipTasks, isZipping, zip>>

\* C32: convertImageToJpg settles once, with a payload when read, decode,
\* context and encode all succeed and with an error otherwise; after a failed
\* step no payload is delivered, and neither its inputs nor the state of the
\* hooks are modified.
C32_SettlesOnce ==
    /\ []C32_Inv
    /\ [][C32_Step]_vars
    /\ <>(hook = TransformUnit => TransformSettled)

\* the encoder returned no payload for a canvas that was filled and drawn
C32_Witness ==
    /\ hook = TransformUnit
    /\ canvas.pc = "rejected"
    /\ canvas.error = "Canvas conversion failed"
    /\ canvas.surface # <<>>

\* ---------------------------------------------------------------- C33
\* the id a frame is working on
CurrentId(frame) == IF frame.pc = "await" THEN {frame.queue[frame.i].id} ELSE {}

\* the same ids at the same positions
SameOrder(items, itemsAfter) ==
    /\ Len(itemsAfter) = Len(items)
    /\ \A k \in 1..Len(items) : itemsAfter[k].id = items[k].id

\* a step of a run changes at most the item it finishes and the item it takes up
OnlyTargets(items, itemsAfter, frame, frameAfter) ==
    \A k \in 1..Len(items) :
        itemsAfter[k] # items[k] => items[k].id \in CurrentId(frame) \cup CurrentId(frameAfter)

C33_Step ==
    /\ conv' # conv =>
          /\ SameOrder(files, files')
          /\ OnlyTargets(files, files', conv, conv')
          /\ \A k \in 1..Len(files) :
                /\ files'[k].file = files[k].file
                /\ files'[k].previewUrl = files[k].previewUrl
                /\ files'[k].width = files[k].width
                /\ files'[k].height = files[k].height
    /\ zip' # zip =>
          /\ SameOrder(zipTasks, zipTasks')
          /\ OnlyTargets(zipTasks, zipTasks', zip, zip')
          /\ \A k \in 1..Len(zipTasks) :
                /\ zipTasks'[k].files = zipTasks[k].files
                /\ zipTasks'[k].folderName = zipTasks[k].folderName

\* C33: every status, progress or completion update of a run changes only the
\* item being processed; the order of the collection and all other items are
\* unchanged, and the target keeps its id, its source file and, for images,
\* its preview URL and dimensions.
C33_FrameEffect == [][C33_Step]_vars

\* a run over two items has failed on the first, next to an item that was
\* Completed before
C33_Witness ==
    /\ hook = ImageHook
    /\ Len(files) = 2
    /\ conv.pc = "returned"
    /\ conv.outcomes = <<"fail">>
    /\ \E k \in 1..2 : files[k].status = COMPLETED
    /\ \E k \in 1..2 : files[k].status = ERROR /\ files[k].previewUrl = ObjectUrl(files[k].id)

\* ---------------------------------------------------------------- C34
\* the files of a list are in the order of the depth-first walk
InWalkOrder(fs) ==
    \A a, b \in 1..Len(fs) : a < b => WalkedBefore(fs[a].fid, fs[b].fid)

\* C34: the files a scan returns, and hands off, are in depth-first order,
\* following the order of the dropped entries and of each directory's listing,
\* in whatever order the file reads and the child traversals completed.
C34_ScanOrder ==
    (hook = ScanUnit /\ traversal.pc \in {"delivered", "empty"}) =>
        /\ InWalkOrder(traversal.allFiles)
        /\ \A h \in 1..Len(traversal.handedOff) : InWalkOrder(traversal.handedOff[h])
        /\ \A addr \in DOMAIN traversal.calls : InWalkOrder(traversal.calls[addr].result)

\* a scan has delivered three or more files, one of them two directories down,
\* after a read had completed ahead of one that comes before it in the walk
C34_Witness ==
    /\ hook = ScanUnit
    /\ traversal.pc = "delivered"
    /\ traversal.overtaken
    /\ Len(traversal.allFiles) >= 3
    /\ \E k \in 1..Len(traversal.allFiles) : Len(traversal.allFiles[k].fid) = 3

\* ---------------------------------------------------------------- C35
ScanInFlight == traversal.pc = "scanning"

C35_Inv ==
    hook = ScanUnit =>
        /\ traversal.isScanning <=> ScanInFlight
        /\ traversal.pc \in {"none", "delivered", "empty", "failed"} => ~traversal.isScanning

C35_Step ==
    hook = ScanUnit =>
        \* a scan starts only from a Dropzone that is not scanning, with the flag set
        /\ traversal'.calls # traversal.calls /\ ~ScanInFlight
              => ~traversal.isScanning /\ traversal'.isScanning
        \* a scan in flight is never replaced by another one
        /\ ScanInFlight => traversal'.items = traversal.items
        \* a drop that is refused starts nothing and hands nothing over
        /\ (traversal'.refused /\ ~traversal.refused)
              => traversal' = [traversal EXCEPT !.refused = TRUE]
        \* the flag is cleared by the step that ends the scan, however it ends
        /\ (ScanInFlight /\ traversal'.pc # "scanning") => ~traversal'.isScanning

\* C35: isScanning is true exactly while a folder scan is in flight, set when
\* the scan starts and cleared when it ends with files, without files or with
\* a failure; a drop while the Dropzone is disabled or scanning starts no scan
\* and hands nothing over.
C35_ScanningFlag == []C35_Inv /\ [][C35_Step]_vars

\* a drop was refused, and the scan that was in flight has ended in a failure
C35_Witness ==
    /\ hook = ScanUnit
    /\ traversal.refused
    /\ traversal.pc = "failed"
    /\ ~traversal.isScanning

\* ---------------------------------------------------------------- C36
\* the source files of the items of the collection
IngestedFiles == {ingest.files[k].file : k \in 1..Len(ingest.files)}

FilesOfCall(c) == {ingest.calls[c].newFiles[k] : k \in 1..Len(ingest.calls[c].newFiles)}

\* the step appends exactly the items of call c: after the items there were,
\* one per file of the call and in the order of the call, each Idle and bare
AppendsCall(c) ==
    LET newFiles == ingest.calls[c].newFiles
        old == Len(ingest.files)
    IN  /\ ingest.calls[c].settled = "pending"
        /\ ingest'.calls[c].settled = "appended"
        /\ \A k \in 1..Len(newFiles) : ingest'.calls[c].lookups[k] = "resolved"
        /\ Len(ingest'.files) = old + Len(newFiles)
        /\ SubSeq(ingest'.files, 1, old) = ingest.files
        /\ \A k \in 1..Len(newFiles) :
              LET item == ingest'.files[old + k]
              IN  /\ item.file = newFiles[k]
                  /\ item.status = IDLE
                  /\ item.convertedBlob = NoBlob
                  /\ item.errorMessage = NoMessage
                  /\ item.id \notin {ingest.files[j].id : j \in 1..old}

C36_Inv ==
    hook = IngestUnit =>
        \A c \in DOMAIN ingest.calls :
            ingest.calls[c].settled # "appended" => FilesOfCall(c) \cap IngestedFiles = {}

C36_Step ==
    hook = IngestUnit =>
        /\ IngestedFiles' \ IngestedFiles # {} =>
              \E c \in DOMAIN ingest.calls : AppendsCall(c)
        /\ \A c \in DOMAIN ingest.calls :
              (ingest.calls[c].settled = "pending" /\ ingest'.calls[c].settled = "appended")
                  => AppendsCall(c)
        /\ \A c \in DOMAIN ingest.calls :
              ingest.calls[c].settled # "pending" =>
                  ingest'.calls[c].settled = ingest.calls[c].settled

\* C36: the items of one handleFilesAdded call are appended together, after the
\* items already there and in input order, each Idle without payload or error,
\* once every lookup of the call has resolved; a call with a failed lookup
\* adds nothing; calls in flight together neither drop nor reorder items.
C36_AtomicAppend == []C36_Inv /\ [][C36_Step]_vars

\* two calls of two files each were in flight together: the second was
\* appended first, and the lookups of the first resolved in reverse order
C36_Witness ==
    /\ hook = IngestUnit
    /\ Len(ingest.files) = 4
    /\ ingest.files[1].file = <<"second", 1>>
    /\ ingest.files[2].file = <<"second", 2>>
    /\ ingest.files[3].file = <<"first", 1>>
    /\ ingest.files[4].file = <<"first", 2>>
    /\ ingest.files[3].id > ingest.files[4].id
    /\ ingest.files[4].id < ingest.files[1].id

====
